---- MODULE Spec2Model ----
(***************************************************************************)
(* Fair-efficiency scoring and per-developer KPI aggregation of the Azure  *)
(* DevOps work item tool.                                                  *)
(*                                                                         *)
(* Units.  Python floats are modelled as exact fixed-point integers:       *)
(*   hours               milli-hours        (8.0 h      -> 8000)           *)
(*   scores, percentages centi-points       (150.0      -> 15000)          *)
(*   factors, weights    per-mille          (0.20       -> 200)            *)
(*   days                milli-days         (7 days     -> 7000)           *)
(*   revision instants   whole hours since Monday 00:00 of week 0          *)
(* round(x, 2) keeps multiples of 10 of these units, round(x, 1) multiples *)
(* of 100.  Binary floating-point representation error is not modelled.    *)
(***************************************************************************)
EXTENDS Integers, Sequences, FiniteSets, TLC

\* The query pipeline: the work items, the arguments of the scorer and the aggregator,
\* the position of the scoring loop and the result of the aggregation.
VARIABLES work_items, state_config, timeframe, assigned_counts, idx, pc, kpis

pipeline_vars == <<work_items, state_config, timeframe, assigned_counts, idx, pc, kpis>>

\* The business-hours clock: its two arguments, the configured maximum and its result.
VARIABLES start_date, end_date, max_hours_per_day, business_hours

clock_vars == <<start_date, end_date, max_hours_per_day, business_hours>>

\* One call of LogicAppClient.get_work_items_by_date_range: its arguments and the
\* client's max_retries, the position in the function, the loop variable and
\* last_exception, the responses received and the sleeps made so far, and the outcome.
VARIABLES emails, dates_valid, max_retries, client_pc, attempt, last_exception,
          responses, sleeps, client_result

client_vars == <<emails, dates_valid, max_retries, client_pc, attempt, last_exception,
                 responses, sleeps, client_result>>

\* One call of get_work_item_revisions_parallel: the ids of the work items given, the
\* batch size and the number of workers; the revisions field of every item (None until
\* it is set); of every batch the state of its future ("submitted", "running", "done",
\* "failed", "collected"), the number of items its loop has passed and its
\* batch_results and batch_failed; the list and the metrics the function builds; and
\* where the function is.  fetch_outcome records what the request of an item met.
VARIABLES input_items, batch_size, max_workers, revisions, batch_state, batch_position,
          batch_results, batch_failed, all_items_with_revisions, performance_metrics,
          fetch_pc, fetch_outcome

fetch_vars == <<input_items, batch_size, max_workers, revisions, batch_state,
                batch_position, batch_results, batch_failed, all_items_with_revisions,
                performance_metrics, fetch_pc, fetch_outcome>>

\* One call of a paginated WIQL query (WorkItemOperations.py): which of the three
\* functions runs the loop, the pages the server holds and the responses on which it
\* hands out a continuation token, the locals of the loop, the wiql_calls counter of
\* the optimized variant, and where the function is.
VARIABLES wiql_method, wiql_server, page_count, continuation_token, all_work_item_ids,
          wiql_calls, wiql_pc

wiql_vars == <<wiql_method, wiql_server, page_count, continuation_token,
               all_work_item_ids, wiql_calls, wiql_pc>>

\* One call of _process_logic_app_work_items (WorkItemOperations.py): the rows of the
\* Logic App response, what the function returned or raised, and where it is.
VARIABLES work_items_raw, processed_items, process_pc

process_vars == <<work_items_raw, processed_items, process_pc>>

\* The variables of everything but the query pipeline.
component_vars == <<clock_vars, client_vars, fetch_vars, wiql_vars, process_vars>>

vars == <<pipeline_vars, component_vars>>

(***************************************************************************)
(* Arithmetic helpers                                                      *)
(***************************************************************************)
Min(a, b) == IF a <= b THEN a ELSE b

Max(a, b) == IF a >= b THEN a ELSE b

Abs(a) == IF a < 0 THEN -a ELSE a

\* Python's round(): the integer nearest to n/d (d > 0), ties to the even one.
RoundDiv(n, d) ==
    LET q == n \div d
        r == n % d
    IN  IF 2 * r < d THEN q
        ELSE IF 2 * r > d THEN q + 1
        ELSE IF q % 2 = 0 THEN q ELSE q + 1

\* round(p/q, 2) of a value p/q given in milli-units: a multiple of 10.
Round2Q(p, q) == 10 * RoundDiv(p, 10 * q)

\* round(x, 2) of a milli-unit value.
Round2(x) == Round2Q(x, 1)

\* round(p/q, 2) of a score or percentage p/q given in centi-points.
RoundPts(p, q) == RoundDiv(p, q)

\* round(x, 1) of a milli-unit value: a multiple of 100.
Round1(x) == 100 * RoundDiv(x, 100)

\* x * f for a per-mille factor f (the inputs are chosen so that it is exact).
Scale(x, f) == (x * f) \div 1000

\* A Python dict whose key order matters is the sequence of its entries in insertion
\* order; {} is the empty sequence.
\* Optional values: None is the empty set, a value v the set {v}.
None == {}

Some(v) == {v}

IsNone(o) == o = {}

The(o) == CHOOSE v \in o : TRUE

\* dict.get(key, default) on a record.
Get(d, key, default) == IF key \in DOMAIN d THEN d[key] ELSE default

EmptyDict == [k \in {} |-> 0]

RECURSIVE SumSeq(_)
SumSeq(s) == IF s = <<>> THEN 0 ELSE Head(s) + SumSeq(Tail(s))

\* The elements of a finite set of integers in increasing order.
RECURSIVE SortedSeq(_)
SortedSeq(S) ==
    IF S = {} THEN <<>>
    ELSE LET m == CHOOSE x \in S : \A y \in S : x <= y
         IN  <<m>> \o SortedSeq(S \ {m})

RECURSIVE GCD(_, _)
GCD(a, b) == IF b = 0 THEN a ELSE GCD(b, a % b)

LCM(a, b) == (a * b) \div GCD(a, b)

\* Exact fractions p/q (q > 0) for the unrounded averages and rates.
Rat(p, q) == [p |-> p, q |-> q]

\* item['state'] is None: a Logic App row carries no state until the revisions give one.
NoState == "<None>"

\* str.lower() on the state names that occur in the model.
Lower(s) ==
    CASE s = "Closed" -> "closed"
      [] s = "DONE" -> "done"
      [] s = "Resolved" -> "resolved"
      [] s = "Completed" -> "completed"
      [] s = "Active" -> "active"
      [] s = "New" -> "new"
      [] s = "Blocked" -> "blocked"
      [] s = "Removed" -> "removed"
      [] OTHER -> s

(***************************************************************************)
(* EfficiencyCalculator.__init__: the default scoring configuration        *)
(***************************************************************************)
config ==
    [ completion_bonus_percentage |-> 200,
      max_efficiency_cap |-> 15000,
      max_hours_per_day |-> 8000,
      early_delivery_thresholds |->
          [very_early_days |-> 7000, early_days |-> 3000, slightly_early_days |-> 1000],
      early_delivery_scores |->
          [very_early |-> 13000, early |-> 12000, slightly_early |-> 11000,
           on_time |-> 10000],
      early_delivery_bonuses |->
          [very_early |-> 1000, early |-> 500, slightly_early |-> 250],
      late_delivery_scores |->
          [late_1_3 |-> 9000, late_4_7 |-> 8000, late_8_14 |-> 7000,
           late_15_plus |-> 6000],
      late_penalty_mitigation |->
          [late_1_3 |-> 2000, late_4_7 |-> 4000, late_8_14 |-> 6000,
           late_15_plus |-> 8000],
      developer_score_weights |->
          [fair_efficiency |-> 250, delivery_score |-> 500, completion_rate |-> 150,
           on_time_delivery |-> 100] ]

\* The state categories used when the caller passes state_config = None.
default_state_config ==
    [ productive_states |-> {"Active", "In Progress", "Development", "Code Review", "Testing"},
      pause_stopper_states |-> {"Stopper", "Blocked", "On Hold", "Waiting"},
      completion_states |-> {"Resolved", "Closed", "Done"},
      ignored_states |-> {"Removed", "Discarded", "Cancelled"} ]

\* The office hours handed to the state stack (hours of the day, cap in milli-hours).
office_hours_config ==
    [ office_start_hour |-> 9,
      office_end_hour |-> 17,
      max_hours_per_day |-> config.max_hours_per_day ]

(***************************************************************************)
(* Delivery timing                                                         *)
(***************************************************************************)
\* A date field is [kind, t]: kind "none" (None or key missing), "empty" (''),
\* "malformed" (a string fromisoformat rejects), "aware" / "naive" (an ISO string
\* with / without a UTC offset, t its instant in milli-days) or "nonstring"
\* (a truthy value that is no string).
IsFalsy(date) == date.kind \in {"none", "empty"}

\* datetime.fromisoformat(date.replace('Z', '+00:00')): the exception raised, or "ok".
ParseDate(date) ==
    CASE date.kind = "nonstring" -> "AttributeError"
      [] date.kind = "malformed" -> "ValueError"
      [] OTHER -> "ok"

default_delivery_metrics ==
    [ delivery_score |-> 10000,
      timing_bonus_hours |-> 0,
      late_penalty_mitigation |-> 0,
      days_difference |-> 0 ]

_calculate_early_delivery_bonus(days_difference) ==
    LET thresholds == config.early_delivery_thresholds
        scores == config.early_delivery_scores
        bonuses == config.early_delivery_bonuses
        tier == IF days_difference <= -thresholds.very_early_days THEN "very_early"
                ELSE IF days_difference <= -thresholds.early_days THEN "early"
                ELSE IF days_difference <= -thresholds.slightly_early_days
                     THEN "slightly_early"
                ELSE "on_time"
    IN  [ delivery_score |-> scores[tier],
          timing_bonus_hours |->
              IF tier = "on_time" THEN 0
              ELSE Scale(Abs(days_difference), bonuses[tier]),
          late_penalty_mitigation |-> 0,
          days_difference |-> Round1(days_difference) ]

\* The late tiers with their upper bounds left out of the tier (< for <=).
_calculate_late_delivery_penalty_exclusive(days_difference) ==
    LET scores == config.late_delivery_scores
        mitigation == config.late_penalty_mitigation
        tier == IF days_difference < 3000 THEN "late_1_3"
                ELSE IF days_difference < 7000 THEN "late_4_7"
                ELSE IF days_difference < 14000 THEN "late_8_14"
                ELSE "late_15_plus"
    IN  [ delivery_score |-> scores[tier],
          timing_bonus_hours |-> 0,
          late_penalty_mitigation |-> mitigation[tier],
          days_difference |-> Round1(days_difference) ]

_calculate_late_delivery_penalty(days_difference) ==
    LET scores == config.late_delivery_scores
        mitigation == config.late_penalty_mitigation
        tier == IF days_difference <= 3000 THEN "late_1_3"
                ELSE IF days_difference <= 7000 THEN "late_4_7"
                ELSE IF days_difference <= 14000 THEN "late_8_14"
                ELSE "late_15_plus"
    IN  [ delivery_score |-> scores[tier],
          timing_bonus_hours |-> 0,
          late_penalty_mitigation |-> mitigation[tier],
          days_difference |-> Round1(days_difference) ]

\* The except clause without ValueError.
delivery_timing_caught_type_error_only == {"TypeError"}

\* The exceptions the try block of _calculate_delivery_timing catches.
delivery_timing_caught == {"ValueError", "TypeError"}

\* The exception the body of the try block raises, or "ok".
delivery_timing_try(target_date, closed_date) ==
    IF ParseDate(target_date) # "ok" THEN ParseDate(target_date)
    ELSE IF ParseDate(closed_date) # "ok" THEN ParseDate(closed_date)
    ELSE IF target_date.kind # closed_date.kind THEN "TypeError"
    ELSE "ok"

\* Returns the delivery metrics, or [exception |-> e] when e propagates.
_calculate_delivery_timing(work_item) ==
    LET target_date == work_item.target_date
        closed_date == work_item.closed_date
        outcome == delivery_timing_try(target_date, closed_date)
        days_difference == closed_date.t - target_date.t
    IN  IF IsFalsy(target_date) \/ IsFalsy(closed_date) THEN default_delivery_metrics
        ELSE IF outcome = "ok"
             THEN IF days_difference <= 0
                  THEN _calculate_early_delivery_bonus(days_difference)
                  ELSE _calculate_late_delivery_penalty(days_difference)
        ELSE IF outcome \in delivery_timing_caught THEN default_delivery_metrics
        ELSE [exception |-> outcome]

(***************************************************************************)
(* State transition stack (classes/state_transition_stack.py)              *)
(***************************************************************************)
\* classify(state_name, config): case-sensitive exact match, "other" by default.
Category(state, cfg) ==
    IF state \in cfg.ignored_states THEN "ignored"
    ELSE IF state \in cfg.completion_states THEN "completion"
    ELSE IF state \in cfg.productive_states THEN "productive"
    ELSE IF state \in cfg.pause_stopper_states THEN "paused"
    ELSE "other"

\* Business milli-hours of day d (0 = a Monday) inside [a, b), a and b in hours.
DayBusinessHours(a, b, d, office) ==
    IF d % 7 >= 5 THEN 0
    ELSE LET day_start == Max(a, 24 * d + office.office_start_hour)
             day_end == Min(b, 24 * d + office.office_end_hour)
         IN  IF day_start < day_end
             THEN Min(1000 * (day_end - day_start), office.max_hours_per_day)
             ELSE 0

RECURSIVE SumDays(_, _, _, _, _)
SumDays(a, b, d, last, office) ==
    IF d > last THEN 0
    ELSE DayBusinessHours(a, b, d, office) + SumDays(a, b, d + 1, last, office)

\* Time-window clock: business milli-hours between the instants a and b.
BusinessHours(a, b, office) ==
    IF a >= b THEN 0 ELSE SumDays(a, b, a \div 24, b \div 24, office)

\* The interval [a, b) cut to the timeframe window [start_day, end_day] (inclusive
\* dates), when one is given.
ClipStart(a, tf) == IF IsNone(tf) THEN a ELSE Max(a, 24 * The(tf).start_day)

ClipEnd(b, tf) == IF IsNone(tf) THEN b ELSE Min(b, 24 * (The(tf).end_day + 1))

\* Hours of the interval between revision i and revision i + 1.
IntervalHours(state_history, i, office, tf) ==
    BusinessHours(ClipStart(state_history[i].changed_at, tf),
                  ClipEnd(state_history[i + 1].changed_at, tf), office)

\* The sum that forgets its filter: every interval counts.
SumWhere_unfiltered(hours, kept) ==
    SumSeq([i \in 1..Len(hours) |-> hours[i]])

\* Sum of the hours of the intervals whose index is in kept.
SumWhere(hours, kept) ==
    SumSeq([i \in 1..Len(hours) |-> IF i \in kept THEN hours[i] ELSE 0])

\* Index of the first revision that reopens the item (a non-completion, non-ignored
\* state after a completion state), 0 when there is none.
ReopenIndex(state_history, cfg) ==
    LET reopens == { j \in 1..Len(state_history) :
                       /\ Category(state_history[j].state, cfg) \notin {"completion", "ignored"}
                       /\ \E k \in 1..(j - 1) :
                              Category(state_history[k].state, cfg) = "completion" }
    IN  IF reopens = {} THEN 0
        ELSE CHOOSE j \in reopens : \A k \in reopens : j <= k

\* The stack whose reopen accumulator takes the hours of every category.
create_stack_from_work_item_reopen_any_category(work_item, state_history, cfg, office, tf) ==
    LET n == Len(state_history) - 1
        hours == [i \in 1..n |-> IntervalHours(state_history, i, office, tf)]
        cat(i) == Category(state_history[i].state, cfg)
        reopen == ReopenIndex(state_history, cfg)
        productive(i) == cat(i) = "productive"
        paused(i) == cat(i) = "paused"
        all(i) == TRUE
        after_reopen(i) == reopen > 0 /\ i >= reopen
        \* dict insertion order: the intervals that are the first of their state
        first(i) == \A j \in 1..(i - 1) : state_history[j].state # state_history[i].state
        states == SortedSeq({ i \in 1..n : first(i) })
        paused_states == SortedSeq({ i \in 1..n : first(i) /\ paused(i) })
        in_state(s) == LET keep(i) == state_history[i].state = s
                       IN  SumWhere(hours, { i \in 1..n : keep(i) })
        entry(i) == [state |-> state_history[i].state, hours |-> in_state(state_history[i].state)]
        should_ignore == \E i \in 1..Len(state_history) : cat(i) = "ignored"
    IN  [ should_ignore |-> should_ignore,
          total_productive_hours |-> SumWhere(hours, { i \in 1..n : productive(i) }),
          total_paused_hours |-> SumWhere(hours, { i \in 1..n : paused(i) }),
          total_time_all_states |-> SumWhere(hours, { i \in 1..n : all(i) }),
          state_durations |-> [k \in 1..Len(states) |-> entry(states[k])],
          paused_time_accumulator |->
              [k \in 1..Len(paused_states) |-> entry(paused_states[k])],
          pattern_summary |->
              [ was_reopened |-> reopen > 0,
                active_after_reopen_hours |-> SumWhere(hours, { i \in 1..n : after_reopen(i) }),
                is_completed |-> Category(work_item.state, cfg) = "completion",
                should_ignore |-> should_ignore ] ]

create_stack_from_work_item(work_item, state_history, cfg, office, tf) ==
    LET n == Len(state_history) - 1
        hours == [i \in 1..n |-> IntervalHours(state_history, i, office, tf)]
        cat(i) == Category(state_history[i].state, cfg)
        reopen == ReopenIndex(state_history, cfg)
        productive(i) == cat(i) = "productive"
        paused(i) == cat(i) = "paused"
        all(i) == TRUE
        after_reopen(i) == reopen > 0 /\ i >= reopen /\ productive(i)
        \* dict insertion order: the intervals that are the first of their state
        first(i) == \A j \in 1..(i - 1) : state_history[j].state # state_history[i].state
        states == SortedSeq({ i \in 1..n : first(i) })
        paused_states == SortedSeq({ i \in 1..n : first(i) /\ paused(i) })
        in_state(s) == LET keep(i) == state_history[i].state = s
                       IN  SumWhere(hours, { i \in 1..n : keep(i) })
        entry(i) == [state |-> state_history[i].state, hours |-> in_state(state_history[i].state)]
        should_ignore == \E i \in 1..Len(state_history) : cat(i) = "ignored"
    IN  [ should_ignore |-> should_ignore,
          total_productive_hours |-> SumWhere(hours, { i \in 1..n : productive(i) }),
          total_paused_hours |-> SumWhere(hours, { i \in 1..n : paused(i) }),
          total_time_all_states |-> SumWhere(hours, { i \in 1..n : all(i) }),
          state_durations |-> [k \in 1..Len(states) |-> entry(states[k])],
          paused_time_accumulator |->
              [k \in 1..Len(paused_states) |-> entry(paused_states[k])],
          pattern_summary |->
              [ was_reopened |-> reopen > 0,
                active_after_reopen_hours |-> SumWhere(hours, { i \in 1..n : after_reopen(i) }),
                is_completed |-> Category(work_item.state, cfg) = "completion",
                should_ignore |-> should_ignore ] ]

(***************************************************************************)
(* Efficiency and delivery scorer                                          *)
(***************************************************************************)
_calculate_estimated_time_from_work_item(work_item) ==
    LET original_estimate == work_item.original_estimate
    IN  IF ~IsNone(original_estimate) /\ The(original_estimate) > 0
        THEN The(original_estimate)
        ELSE 0

\* The record of an item without data that drops the estimate.
_empty_efficiency_metrics_without_estimate(estimated_hours) ==
    [ active_time_hours |-> 0,
      raw_active_time_hours |-> 0,
      paused_time_hours |-> 0,
      total_time_hours |-> 0,
      estimated_time_hours |-> 0,
      efficiency_percentage |-> 0,
      fair_efficiency_score |-> 0,
      delivery_score |-> 0,
      completion_bonus |-> 0,
      delivery_timing_bonus |-> 0,
      days_ahead_behind |-> 0,
      state_breakdown |-> EmptyDict,
      paused_state_breakdown |-> EmptyDict,
      was_reopened |-> FALSE,
      active_after_reopen |-> 0,
      is_completed |-> FALSE,
      should_ignore |-> FALSE,
      capping_applied |-> <<"no_data">>,
      stack_summary |-> EmptyDict ]

_empty_efficiency_metrics(estimated_hours) ==
    [ active_time_hours |-> 0,
      raw_active_time_hours |-> 0,
      paused_time_hours |-> 0,
      total_time_hours |-> 0,
      estimated_time_hours |-> Round2(estimated_hours),
      efficiency_percentage |-> 0,
      fair_efficiency_score |-> 0,
      delivery_score |-> 0,
      completion_bonus |-> 0,
      delivery_timing_bonus |-> 0,
      days_ahead_behind |-> 0,
      state_breakdown |-> EmptyDict,
      paused_state_breakdown |-> EmptyDict,
      was_reopened |-> FALSE,
      active_after_reopen |-> 0,
      is_completed |-> FALSE,
      should_ignore |-> FALSE,
      capping_applied |-> <<"no_data">>,
      stack_summary |-> EmptyDict ]

\* The ignore short-circuit returning the record of an item without data.
_ignored_work_item_metrics_as_empty(estimated_hours) ==
    _empty_efficiency_metrics(estimated_hours)

_ignored_work_item_metrics(estimated_hours) ==
    [ active_time_hours |-> 0,
      raw_active_time_hours |-> 0,
      paused_time_hours |-> 0,
      total_time_hours |-> 0,
      estimated_time_hours |-> Round2(estimated_hours),
      efficiency_percentage |-> 0,
      fair_efficiency_score |-> 0,
      delivery_score |-> 0,
      completion_bonus |-> 0,
      delivery_timing_bonus |-> 0,
      days_ahead_behind |-> 0,
      state_breakdown |-> EmptyDict,
      paused_state_breakdown |-> EmptyDict,
      was_reopened |-> FALSE,
      active_after_reopen |-> 0,
      is_completed |-> FALSE,
      should_ignore |-> TRUE,
      capping_applied |-> <<"ignored_item">>,
      stack_summary |-> [should_ignore |-> TRUE] ]

\* The capping with its comparison turned round: the cap replaces the smaller value.
ActiveHoursCapping_reversed(estimated_hours, raw_productive_hours) ==
    IF estimated_hours <= 0
    THEN [productive_hours |-> 0, capping_applied |-> <<"no_estimate_exclusion">>]
    ELSE LET max_allowed_hours == Scale(estimated_hours, 1200)
         IN  IF raw_productive_hours < max_allowed_hours
             THEN [ productive_hours |-> max_allowed_hours,
                    capping_applied |->
                        << "capped_at_1.2x_estimate_", Round2(raw_productive_hours),
                           "_to_", Round2(max_allowed_hours) >> ]
             ELSE [ productive_hours |-> raw_productive_hours,
                    capping_applied |-> <<"no_capping_needed">> ]

\* The capping at the estimate itself instead of 1.2 times the estimate.
ActiveHoursCapping_at_estimate(estimated_hours, raw_productive_hours) ==
    IF estimated_hours <= 0
    THEN [productive_hours |-> 0, capping_applied |-> <<"no_estimate_exclusion">>]
    ELSE LET max_allowed_hours == estimated_hours
         IN  IF raw_productive_hours > max_allowed_hours
             THEN [ productive_hours |-> max_allowed_hours,
                    capping_applied |->
                        << "capped_at_1.2x_estimate_", Round2(raw_productive_hours),
                           "_to_", Round2(max_allowed_hours) >> ]
             ELSE [ productive_hours |-> raw_productive_hours,
                    capping_applied |-> <<"no_capping_needed">> ]

\* Active hours capping: the hours that count and the reason recorded.  The reason
\* is the tuple of the pieces the f-string puts together.
ActiveHoursCapping(estimated_hours, raw_productive_hours) ==
    IF estimated_hours <= 0
    THEN [productive_hours |-> 0, capping_applied |-> <<"no_estimate_exclusion">>]
    ELSE LET max_allowed_hours == Scale(estimated_hours, 1200)
         IN  IF raw_productive_hours > max_allowed_hours
             THEN [ productive_hours |-> max_allowed_hours,
                    capping_applied |->
                        << "capped_at_1.2x_estimate_", Round2(raw_productive_hours),
                           "_to_", Round2(max_allowed_hours) >> ]
             ELSE [ productive_hours |-> raw_productive_hours,
                    capping_applied |-> <<"no_capping_needed">> ]

IsCompletedState(work_item) ==
    Lower(work_item.state) \in {"closed", "done", "resolved"}

CompletionBonus(work_item, estimated_hours) ==
    IF IsCompletedState(work_item)
    THEN Scale(estimated_hours, config.completion_bonus_percentage)
    ELSE 0

\* round(min(p/q * 100, cap), 2) in centi-points, for milli-hour p and q > 0.
RoundedCappedRatio(p, q, cap) ==
    IF p * 10000 >= cap * q THEN RoundPts(cap, 1) ELSE RoundPts(p * 10000, q)

\* The traditional efficiency without min(.., max_efficiency_cap).
TraditionalEfficiency_uncapped(productive_hours, estimated_hours) ==
    IF productive_hours > 0 /\ estimated_hours > 0
    THEN RoundPts(estimated_hours * 10000, productive_hours)
    ELSE 0

TraditionalEfficiency(productive_hours, estimated_hours) ==
    IF productive_hours > 0 /\ estimated_hours > 0
    THEN RoundedCappedRatio(estimated_hours, productive_hours, config.max_efficiency_cap)
    ELSE 0

\* The fair efficiency with the mitigation left out of the denominator.
FairEfficiency_without_mitigation(productive_hours, completion_bonus, estimated_hours, late_penalty_mitigation) ==
    LET numerator == productive_hours + completion_bonus
        denominator == estimated_hours
    IN  IF denominator > 0
        THEN RoundedCappedRatio(numerator, denominator, config.max_efficiency_cap)
        ELSE 0

\* The fair efficiency with the mitigation subtracted from the estimate.
FairEfficiency_mitigation_subtracted(productive_hours, completion_bonus, estimated_hours, late_penalty_mitigation) ==
    LET numerator == productive_hours + completion_bonus
        denominator == estimated_hours - late_penalty_mitigation
    IN  IF denominator > 0
        THEN RoundedCappedRatio(numerator, denominator, config.max_efficiency_cap)
        ELSE 0

FairEfficiency(productive_hours, completion_bonus, estimated_hours, late_penalty_mitigation) ==
    LET numerator == productive_hours + completion_bonus
        denominator == estimated_hours + late_penalty_mitigation
    IN  IF denominator > 0
        THEN RoundedCappedRatio(numerator, denominator, config.max_efficiency_cap)
        ELSE 0

\* The scorer without the ignore short-circuit: an ignored item is scored like any other.
calculate_fair_efficiency_metrics_without_ignore_check(work_item, state_history, state_config_arg, tf) ==
    LET estimated_hours == _calculate_estimated_time_from_work_item(work_item)
        cfg == IF IsNone(state_config_arg) THEN default_state_config
               ELSE The(state_config_arg)
        state_stack == create_stack_from_work_item(work_item, state_history, cfg,
                                                   office_hours_config, tf)
        raw_productive_hours == state_stack.total_productive_hours
        capping == ActiveHoursCapping(estimated_hours, raw_productive_hours)
        productive_hours == capping.productive_hours
        pattern_summary == [ k \in DOMAIN state_stack.pattern_summary \cup {"capping_applied"} |->
                               IF k = "capping_applied" THEN capping.capping_applied
                               ELSE state_stack.pattern_summary[k] ]
        delivery_metrics == _calculate_delivery_timing(work_item)
        completion_bonus == CompletionBonus(work_item, estimated_hours)
    IN  IF Len(state_history) < 2 THEN _empty_efficiency_metrics(estimated_hours)
        ELSE IF "exception" \in DOMAIN delivery_metrics THEN delivery_metrics
        ELSE IF work_item.state = NoState THEN [exception |-> "AttributeError"]
        ELSE [ active_time_hours |-> Round2(productive_hours),
               raw_active_time_hours |-> Round2(raw_productive_hours),
               paused_time_hours |-> Round2(state_stack.total_paused_hours),
               total_time_hours |-> Round2(state_stack.total_time_all_states),
               estimated_time_hours |-> Round2(estimated_hours),
               efficiency_percentage |->
                   TraditionalEfficiency(productive_hours, estimated_hours),
               fair_efficiency_score |->
                   FairEfficiency(productive_hours, completion_bonus, estimated_hours,
                                  delivery_metrics.late_penalty_mitigation),
               delivery_score |-> RoundPts(delivery_metrics.delivery_score, 1),
               completion_bonus |-> Round2(completion_bonus),
               delivery_timing_bonus |-> Round2(delivery_metrics.timing_bonus_hours),
               days_ahead_behind |-> delivery_metrics.days_difference,
               state_breakdown |-> state_stack.state_durations,
               paused_state_breakdown |-> state_stack.paused_time_accumulator,
               was_reopened |-> Get(pattern_summary, "was_reopened", FALSE),
               active_after_reopen |->
                   Round2(Get(pattern_summary, "active_after_reopen_hours", 0)),
               is_completed |-> Get(pattern_summary, "is_completed", FALSE),
               should_ignore |-> Get(pattern_summary, "should_ignore", FALSE),
               capping_applied |-> Get(pattern_summary, "capping_applied", <<"unknown">>),
               stack_summary |-> pattern_summary ]

\* Returns the metrics record, or [exception |-> e] when an exception propagates.
calculate_fair_efficiency_metrics(work_item, state_history, state_config_arg, tf) ==
    LET estimated_hours == _calculate_estimated_time_from_work_item(work_item)
        cfg == IF IsNone(state_config_arg) THEN default_state_config
               ELSE The(state_config_arg)
        state_stack == create_stack_from_work_item(work_item, state_history, cfg,
                                                   office_hours_config, tf)
        raw_productive_hours == state_stack.total_productive_hours
        capping == ActiveHoursCapping(estimated_hours, raw_productive_hours)
        productive_hours == capping.productive_hours
        pattern_summary == [ k \in DOMAIN state_stack.pattern_summary \cup {"capping_applied"} |->
                               IF k = "capping_applied" THEN capping.capping_applied
                               ELSE state_stack.pattern_summary[k] ]
        delivery_metrics == _calculate_delivery_timing(work_item)
        completion_bonus == CompletionBonus(work_item, estimated_hours)
    IN  IF Len(state_history) < 2 THEN _empty_efficiency_metrics(estimated_hours)
        ELSE IF state_stack.should_ignore THEN _ignored_work_item_metrics(estimated_hours)
        ELSE IF "exception" \in DOMAIN delivery_metrics THEN delivery_metrics
        ELSE IF work_item.state = NoState THEN [exception |-> "AttributeError"]
        ELSE [ active_time_hours |-> Round2(productive_hours),
               raw_active_time_hours |-> Round2(raw_productive_hours),
               paused_time_hours |-> Round2(state_stack.total_paused_hours),
               total_time_hours |-> Round2(state_stack.total_time_all_states),
               estimated_time_hours |-> Round2(estimated_hours),
               efficiency_percentage |->
                   TraditionalEfficiency(productive_hours, estimated_hours),
               fair_efficiency_score |->
                   FairEfficiency(productive_hours, completion_bonus, estimated_hours,
                                  delivery_metrics.late_penalty_mitigation),
               delivery_score |-> RoundPts(delivery_metrics.delivery_score, 1),
               completion_bonus |-> Round2(completion_bonus),
               delivery_timing_bonus |-> Round2(delivery_metrics.timing_bonus_hours),
               days_ahead_behind |-> delivery_metrics.days_difference,
               state_breakdown |-> state_stack.state_durations,
               paused_state_breakdown |-> state_stack.paused_time_accumulator,
               was_reopened |-> Get(pattern_summary, "was_reopened", FALSE),
               active_after_reopen |->
                   Round2(Get(pattern_summary, "active_after_reopen_hours", 0)),
               is_completed |-> Get(pattern_summary, "is_completed", FALSE),
               should_ignore |-> Get(pattern_summary, "should_ignore", FALSE),
               capping_applied |-> Get(pattern_summary, "capping_applied", <<"unknown">>),
               stack_summary |-> pattern_summary ]

(***************************************************************************)
(* Developer aggregator                                                    *)
(***************************************************************************)
\* item.get('efficiency', {}): the 'efficiency' key is None until the item is scored.
EfficiencyOf(item) == IF IsNone(item.efficiency) THEN EmptyDict ELSE The(item.efficiency)

\* Data only where active time was measured.
HasEfficiencyData_active_only(efficiency_data) ==
    /\ efficiency_data # EmptyDict
    /\ efficiency_data.active_time_hours # 0

\* efficiency_data and any(efficiency_data.values()): some value of the dict is truthy.
HasEfficiencyData(efficiency_data) ==
    /\ efficiency_data # EmptyDict
    /\ \/ efficiency_data.active_time_hours # 0
       \/ efficiency_data.raw_active_time_hours # 0
       \/ efficiency_data.paused_time_hours # 0
       \/ efficiency_data.total_time_hours # 0
       \/ efficiency_data.estimated_time_hours # 0
       \/ efficiency_data.efficiency_percentage # 0
       \/ efficiency_data.fair_efficiency_score # 0
       \/ efficiency_data.delivery_score # 0
       \/ efficiency_data.completion_bonus # 0
       \/ efficiency_data.delivery_timing_bonus # 0
       \/ efficiency_data.days_ahead_behind # 0
       \/ efficiency_data.state_breakdown # <<>>
       \/ efficiency_data.paused_state_breakdown # <<>>
       \/ efficiency_data.was_reopened
       \/ efficiency_data.active_after_reopen # 0
       \/ efficiency_data.is_completed
       \/ efficiency_data.should_ignore
       \/ efficiency_data.capping_applied # <<>>
       \/ efficiency_data.stack_summary # EmptyDict

\* The buckets with a difference of 0 days counted as late.
DeliveryTimingBucket_zero_is_late(days_diff) ==
    IF days_diff < 0
    THEN IF days_diff <= -1000 THEN "early" ELSE "on_time"
    ELSE IF days_diff <= 3000 THEN "late_1_3"
    ELSE IF days_diff <= 7000 THEN "late_4_7"
    ELSE IF days_diff <= 14000 THEN "late_8_14"
    ELSE "late_15_plus"

\* The bucket of delivery_timing_counts an item's days_ahead_behind falls in.
DeliveryTimingBucket(days_diff) ==
    IF days_diff <= 0
    THEN IF days_diff <= -1000 THEN "early" ELSE "on_time"
    ELSE IF days_diff <= 3000 THEN "late_1_3"
    ELSE IF days_diff <= 7000 THEN "late_4_7"
    ELSE IF days_diff <= 14000 THEN "late_8_14"
    ELSE "late_15_plus"

DeliveryTimingBuckets ==
    {"early", "on_time", "late_1_3", "late_4_7", "late_8_14", "late_15_plus"}

\* The score with the completion rate clamped at 100 like the on-time percentage.
calculate_developer_score_completion_clamped(completion_rate, avg_fair_efficiency, avg_delivery_score, on_time_delivery) ==
    LET weights == config.developer_score_weights
        clamped == IF on_time_delivery.p >= 10000 * on_time_delivery.q
                   THEN Rat(10000, 1) ELSE on_time_delivery
        completion == IF completion_rate.p >= 10000 * completion_rate.q
                      THEN Rat(10000, 1) ELSE completion_rate
        l == LCM(LCM(completion.q, avg_fair_efficiency.q),
                 LCM(avg_delivery_score.q, clamped.q))
        term(r, w) == r.p * w * (l \div r.q)
    IN  RoundPts(term(avg_fair_efficiency, weights.fair_efficiency)
                 + term(avg_delivery_score, weights.delivery_score)
                 + term(completion, weights.completion_rate)
                 + term(clamped, weights.on_time_delivery),
                 1000 * l)

calculate_developer_score(completion_rate, avg_fair_efficiency, avg_delivery_score, on_time_delivery) ==
    LET weights == config.developer_score_weights
        clamped == IF on_time_delivery.p >= 10000 * on_time_delivery.q
                   THEN Rat(10000, 1) ELSE on_time_delivery
        l == LCM(LCM(completion_rate.q, avg_fair_efficiency.q),
                 LCM(avg_delivery_score.q, clamped.q))
        term(r, w) == r.p * w * (l \div r.q)
    IN  RoundPts(term(avg_fair_efficiency, weights.fair_efficiency)
                 + term(avg_delivery_score, weights.delivery_score)
                 + term(completion_rate, weights.completion_rate)
                 + term(clamped, weights.on_time_delivery),
                 1000 * l)

_empty_developer_metrics(total_assigned_items) ==
    [ total_work_items |-> IF IsNone(total_assigned_items) THEN 0 ELSE The(total_assigned_items),
      completed_items |-> 0,
      items_with_efficiency |-> 0,
      sample_confidence |-> 0,
      completion_rate |-> 0,
      on_time_delivery_percentage |-> 0,
      average_fair_efficiency |-> 0,
      average_delivery_score |-> 0,
      overall_developer_score |-> 0,
      total_active_hours |-> 0,
      total_estimated_hours |-> 0,
      average_days_ahead_behind |-> 0,
      reopened_items_handled |-> 0,
      reopened_rate |-> 0,
      delivery_timing_breakdown |-> [b \in DeliveryTimingBuckets |-> 0] ]

\* The confidence factor without its factor of 3: min(1.0, confidence).
ConfidenceAdjustedAverage_plain_confidence(total_fair_efficiency, items_with_efficiency, items_with_estimated) ==
    IF items_with_efficiency > 0
    THEN IF items_with_estimated > 0
         THEN IF items_with_efficiency >= items_with_estimated
              THEN Rat(total_fair_efficiency, items_with_efficiency)
              ELSE Rat(total_fair_efficiency, items_with_estimated)
         ELSE Rat(0, 1)
    ELSE Rat(0, 1)

\* avg * min(1.0, confidence * 3) with avg = total / with_efficiency and confidence =
\* with_efficiency / with_estimated (0 when nothing has an estimate); 0 without items.
ConfidenceAdjustedAverage(total_fair_efficiency, items_with_efficiency, items_with_estimated) ==
    IF items_with_efficiency > 0
    THEN IF items_with_estimated > 0
         THEN IF 3 * items_with_efficiency >= items_with_estimated
              THEN Rat(total_fair_efficiency, items_with_efficiency)
              ELSE Rat(3 * total_fair_efficiency, items_with_estimated)
         ELSE Rat(0, 1)
    ELSE Rat(0, 1)

_calculate_developer_metrics(items, total_assigned_items) ==
    LET total_items == IF ~IsNone(total_assigned_items) THEN The(total_assigned_items)
                       ELSE Len(items)
        completed(item) == Lower(item.state) \in {"closed", "done", "resolved"}
        completed_items == Len(SelectSeq(items, completed))
        has_data(item) == HasEfficiencyData(EfficiencyOf(item))
        data == SelectSeq(items, has_data)
        items_with_data == Len(data)
        with_estimated(item) == EfficiencyOf(item).estimated_time_hours > 0
        with_efficiency(item) == /\ EfficiencyOf(item).active_time_hours > 0
                                 /\ EfficiencyOf(item).estimated_time_hours > 0
        items_with_estimated == Len(SelectSeq(data, with_estimated))
        items_with_efficiency == Len(SelectSeq(data, with_efficiency))
        fair(item) == EfficiencyOf(item).fair_efficiency_score
        efficient == SelectSeq(data, with_efficiency)
        total_fair_efficiency == SumSeq([k \in 1..Len(efficient) |-> fair(efficient[k])])
        delivery(item) == EfficiencyOf(item).delivery_score
        total_delivery_score == SumSeq([k \in 1..Len(data) |-> delivery(data[k])])
        active(item) == EfficiencyOf(item).active_time_hours
        total_active_hours == SumSeq([k \in 1..Len(data) |-> active(data[k])])
        estimated(item) == EfficiencyOf(item).estimated_time_hours
        total_estimated_hours == SumSeq([k \in 1..Len(data) |-> estimated(data[k])])
        days(item) == EfficiencyOf(item).days_ahead_behind
        total_days_ahead_behind == SumSeq([k \in 1..Len(data) |-> days(data[k])])
        reopened(item) == EfficiencyOf(item).was_reopened
        reopened_items == Len(SelectSeq(data, reopened))
        on_time(item) == days(item) <= 0
        on_time_count == Len(SelectSeq(data, on_time))
        in_bucket(b) == LET test(item) == DeliveryTimingBucket(days(item)) = b
                        IN  Len(SelectSeq(data, test))
        completion_rate == IF total_items > 0 THEN Rat(completed_items * 10000, total_items)
                           ELSE Rat(0, 1)
        avg_fair_efficiency ==
            ConfidenceAdjustedAverage(total_fair_efficiency, items_with_efficiency,
                                      items_with_estimated)
        confidence == IF items_with_efficiency > 0 /\ items_with_estimated > 0
                      THEN Rat(items_with_efficiency, items_with_estimated)
                      ELSE Rat(0, 1)
        on_time_delivery == IF items_with_data > 0
                            THEN Rat(on_time_count * 10000, items_with_data) ELSE Rat(0, 1)
        avg_delivery_score == IF items_with_data > 0
                              THEN Rat(total_delivery_score, items_with_data) ELSE Rat(0, 1)
        avg_days_ahead_behind == IF items_with_data > 0
                                 THEN Rat(total_days_ahead_behind, items_with_data)
                                 ELSE Rat(0, 1)
        reopened_rate == IF items_with_data > 0
                         THEN Rat(reopened_items * 10000, items_with_data) ELSE Rat(0, 1)
        overall_score == calculate_developer_score(completion_rate, avg_fair_efficiency,
                                                   avg_delivery_score, on_time_delivery)
        stateless(item) == item.state = NoState
    IN  IF items = <<>> THEN _empty_developer_metrics(total_assigned_items)
        \* None has no lower()
        ELSE IF SelectSeq(items, stateless) # <<>> THEN [exception |-> "AttributeError"]
        ELSE [ total_work_items |-> total_items,
               completed_items |-> completed_items,
               items_with_efficiency |-> items_with_efficiency,
               sample_confidence |->
                   IF items_with_efficiency > 0
                   THEN RoundPts(confidence.p * 10000, confidence.q) ELSE 0,
               completion_rate |-> RoundPts(completion_rate.p, completion_rate.q),
               on_time_delivery_percentage |->
                   RoundPts(on_time_delivery.p, on_time_delivery.q),
               average_fair_efficiency |->
                   RoundPts(avg_fair_efficiency.p, avg_fair_efficiency.q),
               average_delivery_score |->
                   RoundPts(avg_delivery_score.p, avg_delivery_score.q),
               overall_developer_score |-> RoundPts(overall_score, 1),
               total_active_hours |-> Round2(total_active_hours),
               total_estimated_hours |-> Round2(total_estimated_hours),
               average_days_ahead_behind |->
                   Round2Q(avg_days_ahead_behind.p, avg_days_ahead_behind.q),
               reopened_items_handled |-> reopened_items,
               reopened_rate |-> RoundPts(reopened_rate.p, reopened_rate.q),
               delivery_timing_breakdown |-> [b \in DeliveryTimingBuckets |-> in_bucket(b)] ]

\* The distinct values of the sequence keys, in order of first occurrence.
FirstSeen(keys) ==
    LET firsts == { i \in 1..Len(keys) : \A j \in 1..(i - 1) : keys[j] # keys[i] }
        order == SortedSeq(firsts)
    IN  [k \in 1..Len(order) |-> keys[order[k]]]

RECURSIVE Flatten(_)
Flatten(ss) == IF ss = <<>> THEN <<>> ELSE Head(ss) \o Flatten(Tail(ss))

\* The insertion of an ascending sort.
RECURSIVE InsertSorted_ascending(_, _)
InsertSorted_ascending(x, sorted) ==
    IF sorted = <<>> THEN <<x>>
    ELSE IF Head(sorted).average_time_hours <= x.average_time_hours
         THEN <<Head(sorted)>> \o InsertSorted_ascending(x, Tail(sorted))
         ELSE <<x>> \o sorted

\* list.sort(key=average_time_hours, reverse=True): stable, so entries with equal
\* averages keep their order.  InsertSorted puts x behind every entry that is not smaller.
RECURSIVE InsertSorted(_, _)
InsertSorted(x, sorted) ==
    IF sorted = <<>> THEN <<x>>
    ELSE IF Head(sorted).average_time_hours >= x.average_time_hours
         THEN <<Head(sorted)>> \o InsertSorted(x, Tail(sorted))
         ELSE <<x>> \o sorted

RECURSIVE SortBottlenecks(_)
SortBottlenecks(b) ==
    IF b = <<>> THEN <<>>
    ELSE InsertSorted(b[Len(b)], SortBottlenecks(SubSeq(b, 1, Len(b) - 1)))

empty_kpis ==
    [ overall_summary |->
          [ total_work_items |-> 0, total_developers |-> 0, average_fair_efficiency |-> 0,
            average_delivery_score |-> 0, total_active_hours |-> 0 ],
      developer_metrics |-> EmptyDict,
      bottlenecks |-> <<>> ]

\* assigned_counts.get(developer) if assigned_counts else None
TotalAssigned(counts, developer) ==
    IF counts # EmptyDict /\ developer \in DOMAIN counts
    THEN Some(counts[developer]) ELSE None

\* assigned_counts maps developers to their total assigned items; {} when not known.
\* Quotients are rounded as exact decimals, half to even; a binary float that lies
\* just beside a decimal tie rounds to its own side.
calculate_comprehensive_kpi_per_developer(items, counts) ==
    LET assigned_to(item) == item.assigned_to
        developers == FirstSeen([k \in 1..Len(items) |-> assigned_to(items[k])])
        items_of(developer) == LET mine(item) == item.assigned_to = developer
                               IN  SelectSeq(items, mine)
        total_assigned(developer) == TotalAssigned(counts, developer)
        metrics(developer) ==
            _calculate_developer_metrics(items_of(developer), total_assigned(developer))
        developer_metrics ==
            [ developer \in { developers[k] : k \in 1..Len(developers) } |-> metrics(developer) ]
        total_developers == Len(developers)
        fair(developer) == developer_metrics[developer].average_fair_efficiency
        delivery(developer) == developer_metrics[developer].average_delivery_score
        active(developer) == developer_metrics[developer].total_active_hours
        \* every (state, hours) entry, developer by developer, item by item
        grouped == Flatten([k \in 1..Len(developers) |-> items_of(developers[k])])
        entries == Flatten([k \in 1..Len(grouped) |->
                               Get(EfficiencyOf(grouped[k]), "state_breakdown", <<>>)])
        state_of(entry) == entry.state
        states == FirstSeen([k \in 1..Len(entries) |-> state_of(entries[k])])
        occurrences(state) == LET here(entry) == entry.state = state
                              IN  SelectSeq(entries, here)
        hours_of(entry) == entry.hours
        bottleneck(state) ==
            [ state |-> state,
              average_time_hours |->
                  LET found == occurrences(state)
                  IN  Round2Q(SumSeq([k \in 1..Len(found) |-> hours_of(found[k])]), Len(found)),
              occurrences |-> Len(occurrences(state)) ]
        bottlenecks == SortBottlenecks([k \in 1..Len(states) |-> bottleneck(states[k])])
        raised(developer) == "exception" \in DOMAIN metrics(developer)
    IN  IF items = <<>> THEN empty_kpis
        ELSE IF SelectSeq(developers, raised) # <<>> THEN [exception |-> "AttributeError"]
        ELSE [ overall_summary |->
                   [ total_work_items |-> Len(items),
                     total_developers |-> total_developers,
                     average_fair_efficiency |->
                         RoundPts(SumSeq([k \in 1..Len(developers) |-> fair(developers[k])]),
                                  total_developers),
                     average_delivery_score |->
                         RoundPts(SumSeq([k \in 1..Len(developers) |-> delivery(developers[k])]),
                                  total_developers),
                     total_active_hours |->
                         Round2(SumSeq([k \in 1..Len(developers) |-> active(developers[k])])) ],
               developer_metrics |-> developer_metrics,
               bottlenecks |-> SubSeq(bottlenecks, 1, Min(5, Len(bottlenecks))) ]

(***************************************************************************)
(* Inputs                                                                  *)
(***************************************************************************)
MaxRevisions == 2

MaxItems == 2

Developers == {"dev1", "dev2"}

ItemStates == {"Active", "Closed", "DONE", "Completed"}

\* original_estimate: None, a non-positive value, 8 h, 8.33 h, 20 h.
Estimates == {None, Some(-1000), Some(8000), Some(8330), Some(20000)}

Date(kind, t) == [kind |-> kind, t |-> t]

\* closed_date - target_date in milli-days: both sides of every tier boundary, and
\* 5 days early and 10 days late.  Multiples of 40, so that the bonus hours are exact.
DayOffsets ==
    { -7000, -6960, -5000, -3000, -2960, -1000, -960, 0,
      40, 3000, 3040, 7000, 7040, 10000, 14000, 14040 }

\* <<target_date, closed_date>>
DatePairs ==
    { <<Date("aware", 0), Date("aware", d)>> : d \in DayOffsets }
    \cup { <<Date("naive", 0), Date("naive", 40)>>,
           <<Date("aware", 0), Date("none", 0)>>,
           <<Date("none", 0), Date("aware", 40)>>,
           <<Date("empty", 0), Date("aware", 40)>>,
           <<Date("aware", 0), Date("malformed", 0)>>,
           <<Date("malformed", 0), Date("aware", 40)>>,
           <<Date("malformed", 0), Date("nonstring", 0)>>,
           <<Date("naive", 0), Date("aware", 40)>>,
           <<Date("aware", 0), Date("nonstring", 0)>>,
           <<Date("nonstring", 0), Date("aware", 40)>> }

HistoryStates == {"Active", "Blocked", "Closed", "Removed"}

\* changed_at of revision k: Monday 09:00, Tuesday 11:00, Wednesday 13:00, after the
\* weekend on Monday 12:00, then one day later each.
ChangedAt(k) ==
    CASE k = 1 -> 9
      [] k = 2 -> 35
      [] k = 3 -> 61
      [] k = 4 -> 180
      [] OTHER -> 180 + 24 * (k - 4)

Histories ==
    UNION { [ 1..n -> HistoryStates ] : n \in 0..MaxRevisions }

Revisions(states) ==
    [ k \in 1..Len(states) |-> [revision |-> k, state |-> states[k], changed_at |-> ChangedAt(k)] ]

custom_state_config ==
    [ productive_states |-> {"Active"},
      pause_stopper_states |-> {"Blocked"},
      completion_states |-> {"Completed", "Closed"},
      ignored_states |-> {"Removed"} ]

StateConfigs == {None, Some(custom_state_config)}

WorkItem(id, developer, state, estimate, dates, states) ==
    [ id |-> id,
      assigned_to |-> developer,
      state |-> state,
      original_estimate |-> estimate,
      target_date |-> dates[1],
      closed_date |-> dates[2],
      revisions |-> Revisions(states),
      efficiency |-> None ]

\* One work item, every combination of its fields.
ScoringInputs ==
    { <<WorkItem(1, "dev1", s, e, d, h)>> :
        s \in ItemStates, e \in Estimates, d \in DatePairs, h \in Histories }

\* The work items of the aggregation runs: <<state, original_estimate, dates, history>>.
KpiProfiles ==
    { \* closed on the target date
      <<"Closed", Some(8000), <<Date("aware", 0), Date("aware", 0)>>, <<"Active", "Closed">>>>,
      \* closed an hour late, three days late, three days early
      <<"Closed", Some(8000), <<Date("aware", 0), Date("aware", 40)>>, <<"Active", "Closed">>>>,
      <<"Closed", Some(8000), <<Date("aware", 0), Date("aware", 3040)>>, <<"Active", "Closed">>>>,
      <<"Closed", Some(20000), <<Date("aware", 0), Date("aware", -2960)>>, <<"Active", "Closed">>>>,
      \* removed at some point of its history
      <<"Closed", Some(8000), <<Date("aware", 0), Date("aware", 0)>>, <<"Active", "Removed">>>>,
      \* a single revision
      <<"Active", Some(8000), <<Date("aware", 0), Date("none", 0)>>, <<"Active">>>>,
      \* no estimate, no dates
      <<"Active", None, <<Date("none", 0), Date("none", 0)>>, <<"Active", "Blocked">>>>,
      \* reopened after it was closed
      <<"Closed", Some(20000), <<Date("aware", 0), Date("aware", 0)>>,
        <<"Closed", "Active", "Closed">>>> }

KpiItems ==
    { WorkItem(0, dev, p[1], p[2], p[3], p[4]) : dev \in Developers, p \in KpiProfiles }

\* The lists of 1..MaxItems work items, numbered in order.
KpiInputs ==
    UNION { { [k \in 1..n |-> [items[k] EXCEPT !.id = k]] : items \in [1..n -> KpiItems] } :
            n \in 1..MaxItems }

AssignedCounts ==
    { EmptyDict, [developer \in {"dev1"} |-> 5], [developer \in Developers |-> 1] }

\* None, or the query window Monday..Monday (date numbers, inclusive).
Timeframes == { None, Some([start_day |-> 0, end_day |-> 0]) }

(***************************************************************************)
(* The query pipeline: score every item, then aggregate                    *)
(***************************************************************************)
\* The clock is not in use.
ClockIdle ==
    /\ start_date = None
    /\ end_date = None
    /\ max_hours_per_day = config.max_hours_per_day
    /\ business_hours = None

\* The Logic App client is not in use.
ClientIdle ==
    /\ emails = <<>>
    /\ dates_valid = TRUE
    /\ max_retries = 3
    /\ client_pc = "idle"
    /\ attempt = 0
    /\ last_exception = None
    /\ responses = <<>>
    /\ sleeps = <<>>
    /\ client_result = None

\* The parallel revision fetch is not in use.
FetchIdle ==
    /\ input_items = <<>>
    /\ batch_size = 50
    /\ max_workers = 10
    /\ revisions = <<>>
    /\ batch_state = <<>>
    /\ batch_position = <<>>
    /\ batch_results = <<>>
    /\ batch_failed = <<>>
    /\ all_items_with_revisions = <<>>
    /\ performance_metrics = [revision_calls |-> 0, items_processed |-> 0, failed_items |-> 0]
    /\ fetch_pc = "idle"
    /\ fetch_outcome = <<>>

\* No WIQL query is being paged.
WiqlIdle ==
    /\ wiql_method = "execute_wiql_query"
    /\ wiql_server = [pages |-> <<>>, tokens |-> 0, endless |-> FALSE]
    /\ page_count = 0
    /\ continuation_token = {}
    /\ all_work_item_ids = <<>>
    /\ wiql_calls = 0
    /\ wiql_pc = "idle"

\* No Logic App response is being processed.
ProcessIdle ==
    /\ work_items_raw = <<>>
    /\ processed_items = <<>>
    /\ process_pc = "idle"

\* Every component but the named one is idle.
IdleBut(component) ==
    /\ IF component = "clock" THEN TRUE ELSE ClockIdle
    /\ IF component = "client" THEN TRUE ELSE ClientIdle
    /\ IF component = "fetch" THEN TRUE ELSE FetchIdle
    /\ IF component = "wiql" THEN TRUE ELSE WiqlIdle
    /\ IF component = "process" THEN TRUE ELSE ProcessIdle

\* A step of the named component leaves the others alone.
UnchangedBut(component) ==
    /\ UNCHANGED pipeline_vars
    /\ IF component = "clock" THEN TRUE ELSE UNCHANGED clock_vars
    /\ IF component = "client" THEN TRUE ELSE UNCHANGED client_vars
    /\ IF component = "fetch" THEN TRUE ELSE UNCHANGED fetch_vars
    /\ IF component = "wiql" THEN TRUE ELSE UNCHANGED wiql_vars
    /\ IF component = "process" THEN TRUE ELSE UNCHANGED process_vars

\* Nothing but the query pipeline is in use.
ComponentsIdle == IdleBut("pipeline")

\* The query pipeline is not in use.
PipelineIdle ==
    /\ work_items = <<>>
    /\ state_config = None
    /\ timeframe = None
    /\ assigned_counts = EmptyDict
    /\ idx = 1
    /\ pc = "idle"
    /\ kpis = None

TypeOK ==
    /\ pc \in {"idle", "score", "kpi", "done"}
    /\ idx \in 1..(Len(work_items) + 1)
    /\ state_config \in StateConfigs

Init ==
    /\ work_items \in ScoringInputs
    /\ state_config \in StateConfigs
    /\ timeframe = None
    /\ assigned_counts = EmptyDict
    /\ idx = 1
    /\ pc = "score"
    /\ kpis = None
    /\ ComponentsIdle

\* --no-efficiency: phase 4 is skipped.
SkipEfficiency ==
    /\ pc = "score"
    /\ idx = 1
    /\ pc' = "kpi"
    /\ UNCHANGED <<work_items, state_config, timeframe, assigned_counts, idx, kpis>>
    /\ UNCHANGED component_vars

\* The loop left after its first item.
AfterItem_left_early ==
    /\ idx' = idx + 1
    /\ pc' = "kpi"

\* The loop goes on to the next item, and phase 5 follows the last one.
AfterItem ==
    /\ idx' = idx + 1
    /\ pc' = IF idx = Len(work_items) THEN "kpi" ELSE "score"

\* Phase 4 gives an item without a state the state of its latest revision, if it has one.
UpdateState(item) ==
    IF item.state \in {NoState, ""} /\ item.revisions # <<>>
    THEN [item EXCEPT !.state = item.revisions[Len(item.revisions)].state]
    ELSE item

\* should_include_work_item_with_history says no: the item stays without efficiency.
SkipItem ==
    /\ pc = "score"
    /\ idx <= Len(work_items)
    /\ work_items' = [work_items EXCEPT ![idx] = UpdateState(work_items[idx])]
    /\ AfterItem
    /\ UNCHANGED <<state_config, timeframe, assigned_counts, kpis>>
    /\ UNCHANGED component_vars

\* A pass of the loop in which the scorer fills in the state configuration it was given.
ScoreItem_config_written ==
    /\ pc = "score"
    /\ idx <= Len(work_items)
    /\ LET item == UpdateState(work_items[idx])
           efficiency == calculate_fair_efficiency_metrics(item, item.revisions,
                                                           state_config, timeframe)
       IN  work_items' =
               [ work_items EXCEPT ![idx] =
                     [ item EXCEPT !.efficiency =
                           IF "exception" \in DOMAIN efficiency THEN Some(EmptyDict)
                           ELSE Some(efficiency) ] ]
    /\ AfterItem
    /\ state_config' = Some(custom_state_config)
    /\ UNCHANGED <<timeframe, assigned_counts, kpis>>
    /\ UNCHANGED component_vars

\* One pass of the scoring loop: the item gets its metrics, or {} when scoring raised.
ScoreItem ==
    /\ pc = "score"
    /\ idx <= Len(work_items)
    /\ LET item == UpdateState(work_items[idx])
           efficiency == calculate_fair_efficiency_metrics(item, item.revisions,
                                                           state_config, timeframe)
       IN  work_items' =
               [ work_items EXCEPT ![idx] =
                     [ item EXCEPT !.efficiency =
                           IF "exception" \in DOMAIN efficiency THEN Some(EmptyDict)
                           ELSE Some(efficiency) ] ]
    /\ AfterItem
    /\ UNCHANGED <<state_config, timeframe, assigned_counts, kpis>>
    /\ UNCHANGED component_vars

CalculateKpis ==
    /\ pc = "kpi"
    /\ kpis' = Some(calculate_comprehensive_kpi_per_developer(work_items, assigned_counts))
    /\ pc' = "done"
    /\ UNCHANGED <<work_items, state_config, timeframe, assigned_counts, idx>>
    /\ UNCHANGED component_vars

Next == SkipEfficiency \/ SkipItem \/ ScoreItem \/ CalculateKpis

\* One work item, every combination of its fields.
Spec == Init /\ [][Next]_vars

InitKpi ==
    /\ work_items \in KpiInputs
    /\ state_config = None
    /\ timeframe \in Timeframes
    /\ assigned_counts \in AssignedCounts
    /\ idx = 1
    /\ pc = "score"
    /\ kpis = None
    /\ ComponentsIdle

\* Lists of work items of several developers.
SpecKpi == InitKpi /\ [][Next]_vars

\* The histories of the rows of a Logic App response; the empty one is a row whose
\* revisions could not be fetched.
LogicAppHistories == { <<>>, <<"Active">>, <<"Active", "Closed">>, <<"New", "DONE">> }

\* Work items as _process_logic_app_work_items builds them: no state yet.
LogicAppItems ==
    { WorkItem(0, developer, NoState, Some(8000), <<Date("aware", 0), Date("none", 0)>>, h) :
          developer \in Developers, h \in LogicAppHistories }

LogicAppInputs ==
    UNION { { [k \in 1..n |-> [items[k] EXCEPT !.id = k]] : items \in [1..n -> LogicAppItems] } :
            n \in 1..MaxItems }

InitLogicApp ==
    /\ work_items \in LogicAppInputs
    /\ state_config = None
    /\ timeframe = None
    /\ assigned_counts = EmptyDict
    /\ idx = 1
    /\ pc = "score"
    /\ kpis = None
    /\ ComponentsIdle

\* The Logic App pipeline: the work items get their state in phase 4.
SpecLogicApp == InitLogicApp /\ [][Next]_vars

(***************************************************************************)
(* Histories for the state stack                                           *)
(***************************************************************************)
MaxStackRevisions == 4

\* A productive, a paused, a completion, an unrecognised and an ignored state.
StackStates == {"Active", "Blocked", "Closed", "New", "Removed"}

StackHistories ==
    UNION { [ 1..n -> StackStates ] : n \in 0..MaxStackRevisions }

\* None, the Monday of the first revision alone, or the Tuesday and Wednesday after it.
StackTimeframes == Timeframes \cup { Some([start_day |-> 1, end_day |-> 2]) }

StackInputs ==
    { <<WorkItem(1, "dev1", "Closed", e, <<Date("aware", 0), Date("aware", 40)>>, h)>> :
        e \in {None, Some(20000)}, h \in StackHistories }

InitStack ==
    /\ work_items \in StackInputs
    /\ state_config \in StateConfigs
    /\ timeframe \in StackTimeframes
    /\ assigned_counts = EmptyDict
    /\ idx = 1
    /\ pc = "score"
    /\ kpis = None
    /\ ComponentsIdle

\* One work item, every history of the stack states.
SpecStack == InitStack /\ [][Next]_vars

(***************************************************************************)
(* A team: items with many states for the aggregation                      *)
(***************************************************************************)
MaxTeamItems == 4

\* Revisions with the given states, changed at the given instants.
RevisionsAt(states, instants) ==
    [ k \in 1..Len(states) |-> [revision |-> k, state |-> states[k], changed_at |-> instants[k]] ]

\* <<developer, state, original_estimate, dates, history, change instants>>
TeamProfiles ==
    { \* closed on time after 10 h Active and 10 h Testing, estimate 8 h
      <<"dev1", "Closed", Some(8000), <<Date("aware", 0), Date("aware", 0)>>,
        <<"Active", "Testing", "Closed">>, <<9, 35, 61>>>>,
      \* estimated but never worked on: 2 h New, 13 h Blocked
      <<"dev1", "Active", Some(8000), <<Date("aware", 0), Date("none", 0)>>,
        <<"New", "Blocked", "Active">>, <<9, 11, 40>>>>,
      \* closed three days late after 4 h On Hold and 3 h Code Review, estimate 20 h
      <<"dev1", "Closed", Some(20000), <<Date("aware", 0), Date("aware", 3040)>>,
        <<"On Hold", "Code Review", "Closed">>, <<9, 13, 16>>>>,
      \* a single revision, in a state that does not count as completed for the rate
      <<"dev1", "Completed", Some(8000), <<Date("aware", 0), Date("none", 0)>>,
        <<"Completed">>, <<9>>>>,
      \* another developer, no estimate: 1 h Stopper, 5 h Active
      <<"dev2", "DONE", None, <<Date("aware", 0), Date("aware", -2960)>>,
        <<"Stopper", "Active", "Closed">>, <<9, 10, 15>>>> }

TeamItems ==
    { [ WorkItem(0, p[1], p[2], p[3], p[4], p[5])
          EXCEPT !.revisions = RevisionsAt(p[5], p[6]) ] : p \in TeamProfiles }

\* The lists of 1..MaxTeamItems work items, numbered in order.
TeamInputs ==
    UNION { { [k \in 1..n |-> [items[k] EXCEPT !.id = k]] : items \in [1..n -> TeamItems] } :
            n \in 1..MaxTeamItems }

\* No assigned counts, or a count for the first developer alone.
TeamAssignedCounts == { EmptyDict, [developer \in {"dev1"} |-> 1] }

InitTeam ==
    /\ work_items \in TeamInputs
    /\ state_config = None
    /\ timeframe = None
    /\ assigned_counts \in TeamAssignedCounts
    /\ idx = 1
    /\ pc = "score"
    /\ kpis = None
    /\ ComponentsIdle

\* Lists of work items whose histories pass through many states.
SpecTeam == InitTeam /\ [][Next]_vars

(***************************************************************************)
(* The scored items of a state                                             *)
(***************************************************************************)
Items == 1..Len(work_items)

\* The scoring loop has passed item i and left an efficiency value on it.
Scored(i) == ~IsNone(work_items[i].efficiency)

Eff(i) == The(work_items[i].efficiency)

\* Item i carries a metrics record (not the {} of a scoring error).
HasRecord(i) == Scored(i) /\ Eff(i) # EmptyDict

CurrentStateConfig == IF IsNone(state_config) THEN default_state_config ELSE The(state_config)

StackOf(i) ==
    create_stack_from_work_item(work_items[i], work_items[i].revisions, CurrentStateConfig,
                                office_hours_config, timeframe)

\* The state summary of item i says to ignore it.
SummaryIgnores(i) == Len(work_items[i].revisions) >= 2 /\ StackOf(i).should_ignore

\* Item i went through the scoring steps: two revisions or more, not ignored.
ReachesScoring(i) == Len(work_items[i].revisions) >= 2 /\ ~StackOf(i).should_ignore

\* original_estimate when present and positive, else 0.
EstimateOf(i) ==
    LET e == work_items[i].original_estimate
    IN  IF e # None /\ The(e) > 0 THEN The(e) ELSE 0

DatesAreStrings(i) ==
    /\ work_items[i].target_date.kind # "nonstring"
    /\ work_items[i].closed_date.kind # "nonstring"

\* The productive hours the state summary of item i reports, before capping.
RawProductiveHours(i) == StackOf(i).total_productive_hours

\* Item i went through the scoring steps and carries their record.
FullyScored(i) == HasRecord(i) /\ ReachesScoring(i)

(***************************************************************************)
(* Ignore short-circuit                                                    *)
(***************************************************************************)
\* The quantitative fields of a record other than the estimated hours are all 0.
MeasuredFieldsAreZero(r) ==
    /\ r.active_time_hours = 0
    /\ r.raw_active_time_hours = 0
    /\ r.paused_time_hours = 0
    /\ r.total_time_hours = 0
    /\ r.efficiency_percentage = 0
    /\ r.fair_efficiency_score = 0
    /\ r.delivery_score = 0
    /\ r.completion_bonus = 0
    /\ r.delivery_timing_bonus = 0
    /\ r.days_ahead_behind = 0

C3_EqualIffNoCappingNeeded ==
    \A i \in Items :
        HasRecord(i) =>
            /\ Eff(i).active_time_hours <= Eff(i).raw_active_time_hours
            /\ (Eff(i).active_time_hours = Eff(i).raw_active_time_hours
                    <=> Eff(i).capping_applied = <<"no_capping_needed">>)

\* C3 (amended): in every record the scorer returns, active_time_hours <=
\* raw_active_time_hours; capping_applied = "no_capping_needed" implies the two are
\* equal; and active_time_hours < raw_active_time_hours implies the reason is
\* "no_estimate_exclusion" or starts with "capped_at_1.2x_estimate_".
C3_ActiveAtMostRaw ==
    \A i \in Items :
        HasRecord(i) =>
            /\ Eff(i).active_time_hours <= Eff(i).raw_active_time_hours
            /\ (Eff(i).capping_applied = <<"no_capping_needed">>
                    => Eff(i).active_time_hours = Eff(i).raw_active_time_hours)
            /\ (Eff(i).active_time_hours < Eff(i).raw_active_time_hours
                    => Head(Eff(i).capping_applied)
                           \in {"no_estimate_exclusion", "capped_at_1.2x_estimate_"})

\* A capped record: fewer active hours than raw ones, and the reason says so.
C3_Witness ==
    \E i \in Items :
        /\ HasRecord(i)
        /\ Head(Eff(i).capping_applied) = "capped_at_1.2x_estimate_"
        /\ Eff(i).active_time_hours < Eff(i).raw_active_time_hours

\* C4: with no positive estimate the active hours are 0 and the reason is
\* "no_estimate_exclusion"; otherwise, when the productive hours exceed 1.2 times the
\* estimate, the active hours are that cap and the reason starts with
\* "capped_at_1.2x_estimate_"; otherwise the active hours are the productive hours and
\* the reason is "no_capping_needed" (hours as emitted, rounded to two decimals).
C4_CappingRule ==
    \A i \in Items :
        FullyScored(i) =>
            LET est == EstimateOf(i)
                raw == RawProductiveHours(i)
            IN  IF est <= 0
                THEN /\ Eff(i).active_time_hours = 0
                     /\ Eff(i).capping_applied = <<"no_estimate_exclusion">>
                ELSE IF 10 * raw > 12 * est
                THEN /\ Eff(i).active_time_hours = Round2Q(12 * est, 10)
                     /\ Head(Eff(i).capping_applied) = "capped_at_1.2x_estimate_"
                ELSE /\ Eff(i).active_time_hours = Round2(raw)
                     /\ Eff(i).capping_applied = <<"no_capping_needed">>

\* Ten productive hours against an estimate of eight: capped at 9.6.
C4_Witness ==
    \E i \in Items :
        /\ FullyScored(i)
        /\ EstimateOf(i) = 8000
        /\ RawProductiveHours(i) = 10000
        /\ Eff(i).active_time_hours = 9600
        /\ Head(Eff(i).capping_applied) = "capped_at_1.2x_estimate_"

(***************************************************************************)
(* Efficiency scores                                                       *)
(***************************************************************************)
\* C5: in every record fair_efficiency_score <= max_efficiency_cap and
\* efficiency_percentage <= max_efficiency_cap.
C5_ScoresWithinCap ==
    \A i \in Items :
        HasRecord(i) =>
            /\ Eff(i).fair_efficiency_score <= config.max_efficiency_cap
            /\ Eff(i).efficiency_percentage <= config.max_efficiency_cap

\* An item whose estimate is twice its productive hours: the cap binds.
C5_Witness ==
    \E i \in Items :
        /\ FullyScored(i)
        /\ EstimateOf(i) * 2 >= 3 * RawProductiveHours(i)
        /\ RawProductiveHours(i) > 0
        /\ Eff(i).efficiency_percentage = config.max_efficiency_cap

(***************************************************************************)
(* Delivery timing                                                         *)
(***************************************************************************)
\* Both dates of item i are ISO strings of the same kind, so their difference exists.
BothDatesParse(i) ==
    /\ work_items[i].target_date.kind \in {"aware", "naive"}
    /\ work_items[i].closed_date.kind = work_items[i].target_date.kind

\* closed_date - target_date of item i, in milli-days.
DaysLate(i) == work_items[i].closed_date.t - work_items[i].target_date.t

\* The delivery metrics the scorer computes for item i.
DeliveryOf(i) == _calculate_delivery_timing(work_items[i])

\* C6: with both dates present and d = closed_date - target_date in days, d <= -7
\* gives score 130 and bonus |d| x 1.0; -7 < d <= -3 gives 120 and |d| x 0.5;
\* -3 < d <= -1 gives 110 and |d| x 0.25; -1 < d <= 0 gives 100 and no bonus;
\* 0 < d <= 3 gives 90 and mitigation 2; 3 < d <= 7 gives 80 and 4; 7 < d <= 14 gives
\* 70 and 6; d > 14 gives 60 and 8; the bonus is nonzero only for d <= 0 and the
\* mitigation only for d > 0, so they are never both nonzero.
C6_DeliveryTiers ==
    \A i \in Items :
        FullyScored(i) /\ BothDatesParse(i) =>
            LET d == DaysLate(i)
                tier == IF d <= -7000 THEN <<13000, 1000, 0>>
                        ELSE IF d <= -3000 THEN <<12000, 500, 0>>
                        ELSE IF d <= -1000 THEN <<11000, 250, 0>>
                        ELSE IF d <= 0 THEN <<10000, 0, 0>>
                        ELSE IF d <= 3000 THEN <<9000, 0, 2000>>
                        ELSE IF d <= 7000 THEN <<8000, 0, 4000>>
                        ELSE IF d <= 14000 THEN <<7000, 0, 6000>>
                        ELSE <<6000, 0, 8000>>
                bonus == (Abs(d) * tier[2]) \div 1000
            IN  /\ Eff(i).delivery_score = tier[1]
                /\ DeliveryOf(i).delivery_score = tier[1]
                /\ DeliveryOf(i).timing_bonus_hours = bonus
                /\ Eff(i).delivery_timing_bonus = Round2(bonus)
                /\ DeliveryOf(i).late_penalty_mitigation = tier[3]
                /\ (DeliveryOf(i).timing_bonus_hours # 0 => d <= 0)
                /\ (DeliveryOf(i).late_penalty_mitigation # 0 => d > 0)
                /\ ~(/\ DeliveryOf(i).timing_bonus_hours # 0
                     /\ DeliveryOf(i).late_penalty_mitigation # 0)

\* Closed ten days after the target date: score 70, mitigation 6 hours.
C6_Witness ==
    \E i \in Items :
        /\ FullyScored(i) /\ BothDatesParse(i)
        /\ DaysLate(i) = 10000
        /\ Eff(i).delivery_score = 7000
        /\ DeliveryOf(i).late_penalty_mitigation = 6000

\* A date of item i is missing, or is a string that is no ISO date.
DateMissingOrMalformed(i) ==
    \/ IsFalsy(work_items[i].target_date)
    \/ IsFalsy(work_items[i].closed_date)
    \/ work_items[i].target_date.kind = "malformed"
    \/ work_items[i].closed_date.kind = "malformed"

\* C7: when target_date or closed_date is missing, or either is a malformed date
\* string (each date being a string when present), delivery timing is the default
\* record (score 100, bonus 0, mitigation 0, days 0) and the scorer returns its
\* record: no exception reaches its caller.
C7_DeliveryTimingNeverFails ==
    \A i \in Items :
        /\ Scored(i) /\ ReachesScoring(i)
        /\ DatesAreStrings(i) /\ DateMissingOrMalformed(i)
        => /\ DeliveryOf(i) = [ delivery_score |-> 10000, timing_bonus_hours |-> 0,
                                late_penalty_mitigation |-> 0, days_difference |-> 0 ]
           /\ HasRecord(i)
           /\ Eff(i).delivery_score = 10000
           /\ Eff(i).delivery_timing_bonus = 0
           /\ Eff(i).days_ahead_behind = 0

\* A scored item whose closed date is a string that is no date.
C7_Witness ==
    \E i \in Items :
        /\ Scored(i) /\ ReachesScoring(i)
        /\ work_items[i].target_date.kind = "aware"
        /\ work_items[i].closed_date.kind = "malformed"
        /\ HasRecord(i)
        /\ Eff(i).delivery_score = 10000

(***************************************************************************)
(* Completion bonus and fair efficiency                                    *)
(***************************************************************************)
\* C8: completion_bonus is estimated_hours x completion_bonus_percentage if and only
\* if the current state of the item is classified as a completion state by the state
\* configuration in use, and 0 otherwise.
C8_CompletionBonusByConfig ==
    \A i \in Items :
        FullyScored(i) =>
            Eff(i).completion_bonus =
                IF Category(work_items[i].state, CurrentStateConfig) = "completion"
                THEN Round2Q(EstimateOf(i) * config.completion_bonus_percentage, 1000)
                ELSE 0

\* The hours of item i that count after capping, as the capping rule gives them.
PostCapHours(i) ==
    IF EstimateOf(i) <= 0 THEN 0
    ELSE IF 10 * RawProductiveHours(i) > 12 * EstimateOf(i)
         THEN (12 * EstimateOf(i)) \div 10
         ELSE RawProductiveHours(i)

\* The completion bonus the scorer adds for item i, in milli-hours.
BonusHours(i) == CompletionBonus(work_items[i], EstimateOf(i))

\* C9: with numerator = post-cap active hours + completion bonus and denominator =
\* estimated hours + late penalty mitigation, fair_efficiency_score is
\* min(numerator / denominator x 100, max_efficiency_cap), rounded to two decimals,
\* when the denominator is positive and 0 otherwise; the timing bonus is no part of it.
C9_FairEfficiencyFormula ==
    \A i \in Items :
        FullyScored(i) =>
            LET numerator == PostCapHours(i) + BonusHours(i)
                denominator == EstimateOf(i) + DeliveryOf(i).late_penalty_mitigation
                score == Eff(i).fair_efficiency_score
                cap == config.max_efficiency_cap
            IN  IF denominator > 0
                THEN IF numerator * 10000 >= cap * denominator
                     THEN score = cap
                     ELSE 2 * Abs(score * denominator - numerator * 10000) <= denominator
                ELSE score = 0

\* A late, completed item below the cap: the mitigation is part of the denominator.
C9_Witness ==
    \E i \in Items :
        /\ FullyScored(i)
        /\ DeliveryOf(i).late_penalty_mitigation > 0
        /\ BonusHours(i) > 0
        /\ Eff(i).fair_efficiency_score > 0
        /\ Eff(i).fair_efficiency_score < config.max_efficiency_cap

\* The late penalty mitigation of every tier, and 0 for an item that is not late.
MitigationHours ==
    {0} \cup { config.late_penalty_mitigation[t] : t \in DOMAIN config.late_penalty_mitigation }

\* The fair efficiency of item i had its mitigation been m, everything else fixed.
FairEfficiencyWith(i, m) ==
    FairEfficiency(ActiveHoursCapping(EstimateOf(i), RawProductiveHours(i)).productive_hours,
                   BonusHours(i), EstimateOf(i), m)

\* C10: for fixed active hours, completion bonus and estimate, fair_efficiency_score
\* does not increase when the late penalty mitigation increases: the score of a scored
\* item is at least its score under every larger mitigation and at most its score
\* under every smaller one.
C10_MonotoneInMitigation ==
    \A i \in Items :
        FullyScored(i) =>
            /\ Eff(i).fair_efficiency_score =
                   FairEfficiencyWith(i, DeliveryOf(i).late_penalty_mitigation)
            /\ \A m \in MitigationHours :
                   /\ m >= DeliveryOf(i).late_penalty_mitigation
                          => FairEfficiencyWith(i, m) <= Eff(i).fair_efficiency_score
                   /\ m <= DeliveryOf(i).late_penalty_mitigation
                          => FairEfficiencyWith(i, m) >= Eff(i).fair_efficiency_score

\* An item up to three days late whose score would be lower in the last late tier.
C10_Witness ==
    \E i \in Items :
        /\ FullyScored(i)
        /\ DeliveryOf(i).late_penalty_mitigation = 2000
        /\ FairEfficiencyWith(i, 8000) < Eff(i).fair_efficiency_score
        /\ FairEfficiencyWith(i, 0) > Eff(i).fair_efficiency_score

(***************************************************************************)
(* Ignored items in the aggregates                                         *)
(***************************************************************************)
\* The record of the item says to ignore it.
IsIgnoredItem(item) ==
    /\ EfficiencyOf(item) # EmptyDict
    /\ EfficiencyOf(item).should_ignore

IsKeptItem(item) == ~IsIgnoredItem(item)

\* C1: items whose record has should_ignore = true contribute nothing: the developer
\* metrics, overall summary and bottleneck list are those of the list with the
\* ignored items removed.
C1_IgnoredItemsContributeNothing ==
    pc = "done" =>
        The(kpis) = calculate_comprehensive_kpi_per_developer(
                        SelectSeq(work_items, IsKeptItem), assigned_counts)

(***************************************************************************)
(* Items with fewer than two revisions                                     *)
(***************************************************************************)
\* The record has no breakdowns and no flags set.
NothingRecorded(r) ==
    /\ r.state_breakdown = EmptyDict
    /\ r.paused_state_breakdown = EmptyDict
    /\ ~r.was_reopened
    /\ r.active_after_reopen = 0
    /\ ~r.is_completed
    /\ ~r.should_ignore

\* C12 (as stated): an item with fewer than 2 revisions yields the empty record, all
\* quantitative fields (the estimated hours among them) zero, empty breakdowns,
\* should_ignore = false and no exception, whatever its estimate, dates and state.
C12_EmptyRecordAllZero ==
    \A i \in Items :
        Scored(i) /\ Len(work_items[i].revisions) < 2 =>
            /\ HasRecord(i)
            /\ MeasuredFieldsAreZero(Eff(i))
            /\ Eff(i).estimated_time_hours = 0
            /\ NothingRecorded(Eff(i))

\* C12 (amended): an item with fewer than 2 revisions yields the empty record, every
\* quantitative field other than the estimated hours zero, estimated_time_hours the
\* item's estimate rounded to two decimals, empty breakdowns, should_ignore = false
\* and no exception, whatever its estimate, dates and state.
C12_EmptyRecord ==
    \A i \in Items :
        Scored(i) /\ Len(work_items[i].revisions) < 2 =>
            /\ HasRecord(i)
            /\ MeasuredFieldsAreZero(Eff(i))
            /\ Eff(i).estimated_time_hours = Round2(EstimateOf(i))
            /\ NothingRecorded(Eff(i))
            /\ Eff(i).capping_applied = <<"no_data">>

\* A closed item with one revision, an estimate and a date no later step could parse.
C12_Witness ==
    \E i \in Items :
        /\ Scored(i) /\ Len(work_items[i].revisions) = 1
        /\ EstimateOf(i) > 0
        /\ work_items[i].state = "Closed"
        /\ work_items[i].target_date.kind = "nonstring"
        /\ HasRecord(i)
        /\ Eff(i).estimated_time_hours = EstimateOf(i)

(***************************************************************************)
(* Ignore policy                                                           *)
(***************************************************************************)
\* Some revision of item i, at whatever position, is in a state configured as ignored.
HasIgnoredRevision(i) ==
    \E k \in 1..Len(work_items[i].revisions) :
        work_items[i].revisions[k].state \in CurrentStateConfig.ignored_states

\* C13: if any revision of an item with at least 2 revisions has a state classified
\* ignored, the item is marked should_ignore = true and the scorer returns the ignored
\* record, whatever the other states of the history and the current state of the item.
C13_IgnoredAnywhereInHistory ==
    \A i \in Items :
        Scored(i) /\ Len(work_items[i].revisions) >= 2 /\ HasIgnoredRevision(i) =>
            /\ StackOf(i).should_ignore
            /\ HasRecord(i)
            /\ Eff(i).should_ignore
            /\ Eff(i).capping_applied = <<"ignored_item">>
            /\ Eff(i).stack_summary = [should_ignore |-> TRUE]
            /\ MeasuredFieldsAreZero(Eff(i))

\* A closed item whose first revision alone was in an ignored state.
C13_Witness ==
    \E i \in Items :
        /\ Scored(i) /\ Len(work_items[i].revisions) >= 2
        /\ work_items[i].revisions[1].state \in CurrentStateConfig.ignored_states
        /\ \A k \in 2..Len(work_items[i].revisions) :
               work_items[i].revisions[k].state \in CurrentStateConfig.productive_states
        /\ work_items[i].state = "Closed"
        /\ HasRecord(i) /\ Eff(i).should_ignore

(***************************************************************************)
(* State stack accumulators                                                *)
(***************************************************************************)
\* Item i was scored and has the two revisions an interval needs.
Walked(i) == Scored(i) /\ Len(work_items[i].revisions) >= 2

\* C14: after any revision sequence active_after_reopen_hours <= total_productive_hours
\* (and is not negative), in the state summary and in the record the scorer emits.
C14_ReopenWithinProductive ==
    \A i \in Items :
        Walked(i) =>
            /\ StackOf(i).pattern_summary.active_after_reopen_hours >= 0
            /\ StackOf(i).pattern_summary.active_after_reopen_hours
                   <= StackOf(i).total_productive_hours
            /\ (FullyScored(i) =>
                    /\ Eff(i).active_after_reopen
                           = Round2(StackOf(i).pattern_summary.active_after_reopen_hours)
                    /\ Eff(i).active_after_reopen <= Eff(i).raw_active_time_hours)

\* A reopened item with productive hours both before it was closed and after.
C14_Witness ==
    \E i \in Items :
        /\ FullyScored(i)
        /\ Eff(i).was_reopened
        /\ Eff(i).active_after_reopen > 0
        /\ Eff(i).active_after_reopen < Eff(i).raw_active_time_hours

\* The sum of the hours of the state_durations entries whose state is in the set.
DurationIn(i, states) ==
    LET durations == StackOf(i).state_durations
    IN  SumSeq([k \in 1..Len(durations) |->
                   IF durations[k].state \in states THEN durations[k].hours ELSE 0])

\* C15: after the walk over a chronologically ordered revision sequence every
\* accumulated value is non-negative and total_time_hours >= total_productive_hours +
\* total_paused_hours; the per-state hours add up to the total, those of productive
\* states to the productive total, those of paused states to the paused total, and the
\* hours of every other state count in the total alone.
C15_AccumulatedHours ==
    \A i \in Items :
        Walked(i) =>
            LET stack == StackOf(i)
                cfg == CurrentStateConfig
                counted == (cfg.productive_states \cup cfg.pause_stopper_states)
                               \ (cfg.ignored_states \cup cfg.completion_states)
            IN  /\ stack.total_productive_hours >= 0
                /\ stack.total_paused_hours >= 0
                /\ stack.total_time_all_states >= 0
                /\ \A k \in 1..Len(stack.state_durations) :
                       stack.state_durations[k].hours >= 0
                /\ stack.total_time_all_states
                       >= stack.total_productive_hours + stack.total_paused_hours
                /\ stack.total_time_all_states = DurationIn(i, StackStates)
                /\ stack.total_time_all_states
                       - stack.total_productive_hours - stack.total_paused_hours
                       = DurationIn(i, StackStates \ counted)

\* An item with productive, paused and unrecognised time, all of it scored.
C15_Witness ==
    \E i \in Items :
        /\ FullyScored(i)
        /\ Eff(i).raw_active_time_hours > 0
        /\ Eff(i).paused_time_hours > 0
        /\ Eff(i).total_time_hours
               > Eff(i).raw_active_time_hours + Eff(i).paused_time_hours

(***************************************************************************)
(* Claims about the developer aggregation                                  *)
(***************************************************************************)
\* The metrics have been calculated.
Aggregated == pc = "done" /\ ~IsNone(kpis)

Kpis == The(kpis)

\* The assignees of the work items.
Assignees == { work_items[i].assigned_to : i \in Items }

MetricsOf(developer) == Kpis.developer_metrics[developer]

\* The items of a developer that carry a metrics record.
RecordsOf(developer) == { i \in Items : work_items[i].assigned_to = developer /\ HasRecord(i) }

\* The sum of a numeric field over the records of the items in the set.
RECURSIVE SumField(_, _)
SumField(items, field) ==
    IF items = {} THEN 0
    ELSE LET i == CHOOSE j \in items : TRUE
         IN  Eff(i)[field] + SumField(items \ {i}, field)

\* The items that count for the efficiency average: active and estimated time both > 0.
WithEfficiency(developer) ==
    { i \in RecordsOf(developer) :
          Eff(i).active_time_hours > 0 /\ Eff(i).estimated_time_hours > 0 }

\* The items with an estimate, whatever their active time.
WithEstimate(developer) ==
    { i \in RecordsOf(developer) : Eff(i).estimated_time_hours > 0 }

\* C16: for each assignee average_fair_efficiency is the mean of fair_efficiency_score
\* over the items with active time > 0 and estimated time > 0, multiplied by
\* min(1.0, 3 * items_with_efficiency / items_with_estimated); it is 0 when no item
\* qualifies, and the plain mean once the fraction reaches 1/3.
C16_ConfidenceWeightedEfficiency ==
    Aggregated =>
        \A developer \in Assignees :
            LET efficient == WithEfficiency(developer)
                estimated == WithEstimate(developer)
                total == SumField(efficient, "fair_efficiency_score")
                average == MetricsOf(developer).average_fair_efficiency
            IN  /\ MetricsOf(developer).items_with_efficiency = Cardinality(efficient)
                /\ efficient = {} => average = 0
                /\ efficient # {} /\ 3 * Cardinality(efficient) >= Cardinality(estimated)
                       => average = RoundPts(total, Cardinality(efficient))
                /\ efficient # {} /\ 3 * Cardinality(efficient) < Cardinality(estimated)
                       => average = RoundPts(3 * total, Cardinality(estimated))

\* A developer whose one item with an efficiency is less than a third of the items
\* with an estimate, so that the average is scaled down.
C16_Witness ==
    /\ Aggregated
    /\ \E developer \in Assignees :
           /\ WithEfficiency(developer) # {}
           /\ 3 * Cardinality(WithEfficiency(developer)) < Cardinality(WithEstimate(developer))
           /\ MetricsOf(developer).average_fair_efficiency > 0
           /\ MetricsOf(developer).average_fair_efficiency
                  < RoundPts(SumField(WithEfficiency(developer), "fair_efficiency_score"),
                             Cardinality(WithEfficiency(developer)))

\* The weighted sum of the emitted averages of a developer, in units of 1/100000 point,
\* with the on-time percentage taken at most at 100.
WeightedSum(developer) ==
    LET m == MetricsOf(developer)
    IN  m.average_fair_efficiency * 250
        + m.average_delivery_score * 500
        + m.completion_rate * 150
        + Min(10000, m.on_time_delivery_percentage) * 100

\* C17: overall_developer_score = avg_fair_efficiency * 0.25 + avg_delivery_score * 0.50
\* + completion_rate * 0.15 + min(100, on_time_delivery) * 0.10, the efficiency being the
\* confidence-scaled average; the completion rate and the averages enter unclamped.
\* Every emitted value is rounded to 2 decimals, so the emitted score lies within 0.01
\* of the weighted sum of the emitted values.
C17_OverallDeveloperScore ==
    Aggregated =>
        \A developer \in Assignees :
            LET score == MetricsOf(developer).overall_developer_score
            IN  /\ 1000 * score - WeightedSum(developer) <= 1000
                /\ WeightedSum(developer) - 1000 * score <= 1000

\* A developer with more completed items than assigned ones: a completion rate above
\* 100 that enters the score in full.
C17_Witness ==
    /\ Aggregated
    /\ \E developer \in Assignees :
           /\ MetricsOf(developer).completion_rate > 10000
           /\ MetricsOf(developer).average_delivery_score > 0
           /\ MetricsOf(developer).on_time_delivery_percentage > 0

\* The items of a developer, scored or not.
ItemsOf(developer) == { i \in Items : work_items[i].assigned_to = developer }

\* The items of a developer whose current state is closed, done or resolved in any
\* spelling of upper and lower case that occurs.
CompletedOf(developer) ==
    { i \in ItemsOf(developer) :
          work_items[i].state \in {"Closed", "closed", "DONE", "done", "Resolved", "resolved"} }

\* An assigned count is supplied for the developer.
CountSupplied(developer) ==
    assigned_counts # EmptyDict /\ developer \in DOMAIN assigned_counts

\* C18: completion_rate = completed_items / total_assigned_items * 100 for each
\* assignee; completed_items counts the assignee's items whose current state lower-cases
\* to closed, done or resolved; total_assigned_items is the supplied count of the
\* assignee, and the number of the assignee's items present when no count is supplied
\* for them (no map, an empty map, or a map without the assignee).
C18_CompletionRate ==
    Aggregated =>
        /\ "developer_metrics" \in DOMAIN Kpis
        /\ \A developer \in Assignees :
               LET m == MetricsOf(developer)
                   total == IF CountSupplied(developer) THEN assigned_counts[developer]
                            ELSE Cardinality(ItemsOf(developer))
               IN  /\ m.completed_items = Cardinality(CompletedOf(developer))
                   /\ m.total_work_items = total
                   /\ total > 0
                          => m.completion_rate
                                 = RoundPts(Cardinality(CompletedOf(developer)) * 10000, total)

\* The items of a developer that count as items with data.  A metrics record always
\* has a truthy value (capping_applied is a non-empty string), so these are the items
\* with a record.
WithData(developer) == RecordsOf(developer)

OnTime(developer) == { i \in WithData(developer) : Eff(i).days_ahead_behind <= 0 }

Reopened(developer) == { i \in WithData(developer) : Eff(i).was_reopened }

\* C19: on_time_delivery_percentage is 100 * (the assignee's items with data whose
\* days_ahead_behind <= 0) / items_with_data; average_delivery_score,
\* average_days_ahead_behind and reopened_rate are plain means over the same items;
\* all four are 0 when there is no item with data.
C19_MeansOverItemsWithData ==
    Aggregated =>
        \A developer \in Assignees :
            LET m == MetricsOf(developer)
                data == WithData(developer)
                n == Cardinality(data)
            IN  IF n = 0
                THEN /\ m.on_time_delivery_percentage = 0
                     /\ m.average_delivery_score = 0
                     /\ m.average_days_ahead_behind = 0
                     /\ m.reopened_rate = 0
                ELSE /\ m.on_time_delivery_percentage
                            = RoundPts(Cardinality(OnTime(developer)) * 10000, n)
                     /\ m.average_delivery_score
                            = RoundPts(SumField(data, "delivery_score"), n)
                     /\ m.average_days_ahead_behind
                            = Round2Q(SumField(data, "days_ahead_behind"), n)
                     /\ m.reopened_rate
                            = RoundPts(Cardinality(Reopened(developer)) * 10000, n)

\* A developer with two items with data, one late and one not, one of them reopened.
C19_Witness ==
    /\ Aggregated
    /\ \E developer \in Assignees :
           /\ Cardinality(WithData(developer)) = 2
           /\ Cardinality(OnTime(developer)) = 1
           /\ Cardinality(Reopened(developer)) = 1
           /\ MetricsOf(developer).on_time_delivery_percentage = 5000
           /\ MetricsOf(developer).reopened_rate = 5000
           /\ MetricsOf(developer).average_days_ahead_behind > 0

\* The state_breakdown of item i: empty for an item without a metrics record.
BreakdownOf(i) == IF HasRecord(i) THEN Eff(i).state_breakdown ELSE <<>>

\* The hours item i spent in the state according to its state_breakdown.
HoursIn(i, state) ==
    LET breakdown == BreakdownOf(i)
    IN  SumSeq([k \in 1..Len(breakdown) |->
                   IF breakdown[k].state = state THEN breakdown[k].hours ELSE 0])

\* The items whose state_breakdown contains the state.
Occurrences(state) ==
    { i \in Items : \E k \in 1..Len(BreakdownOf(i)) : BreakdownOf(i)[k].state = state }

\* The states of the state_breakdowns of all items.
BreakdownStates ==
    UNION { { BreakdownOf(i)[k].state : k \in 1..Len(BreakdownOf(i)) } : i \in Items }

RECURSIVE TotalHours(_, _)
TotalHours(items, state) ==
    IF items = {} THEN 0
    ELSE LET i == CHOOSE j \in items : TRUE
         IN  HoursIn(i, state) + TotalHours(items \ {i}, state)

\* total_hours / occurrence_count, as emitted (2 decimals).
AverageTimeHours(state) ==
    Round2Q(TotalHours(Occurrences(state), state), Cardinality(Occurrences(state)))

Returned == { Kpis.bottlenecks[k].state : k \in 1..Len(Kpis.bottlenecks) }

\* C20: each state of some item's state_breakdown has as occurrence count the number
\* of items whose state_breakdown contains it and as average_time_hours the sum of its
\* hours over these items divided by that count; the returned list has at most 5
\* entries (all states when there are at most 5), each state once, sorted by
\* average_time_hours in non-increasing order, and no state left out has a larger
\* average than a state returned.
C20_BottleneckRanking ==
    Aggregated =>
        LET bottlenecks == Kpis.bottlenecks
        IN  /\ Len(bottlenecks) = Min(5, Cardinality(BreakdownStates))
            /\ Cardinality(Returned) = Len(bottlenecks)
            /\ \A k \in 1..Len(bottlenecks) :
                   /\ bottlenecks[k].state \in BreakdownStates
                   /\ bottlenecks[k].occurrences
                          = Cardinality(Occurrences(bottlenecks[k].state))
                   /\ bottlenecks[k].average_time_hours
                          = AverageTimeHours(bottlenecks[k].state)
            /\ \A k \in 1..(Len(bottlenecks) - 1) :
                   bottlenecks[k].average_time_hours >= bottlenecks[k + 1].average_time_hours
            /\ \A state \in BreakdownStates \ Returned :
                   \A k \in 1..Len(bottlenecks) :
                       AverageTimeHours(state) <= bottlenecks[k].average_time_hours

\* More than five states, one of them left out with a smaller average than the last
\* one returned, and a returned state averaged over items with different hours.
C20_Witness ==
    /\ Aggregated
    /\ Cardinality(BreakdownStates) > 5
    /\ Len(Kpis.bottlenecks) = 5
    /\ \E state \in BreakdownStates \ Returned :
           AverageTimeHours(state) < Kpis.bottlenecks[5].average_time_hours
    /\ \E state \in Returned :
           \E i, j \in Occurrences(state) : HoursIn(i, state) < HoursIn(j, state)
    /\ Kpis.bottlenecks[1].average_time_hours > Kpis.bottlenecks[5].average_time_hours

(***************************************************************************)
(* Business-hours clock of the calculator                                  *)
(***************************************************************************)
\* A datetime is [day, minute]: the calendar day, counted from a Monday (day 0), and the
\* minute of the day.  Both datetimes of a call are in the same time zone.
MaxClockDays == 8

\* Midnight, before, at and within the office hours, at their end and after it.
ClockMinutes == {0, 510, 540, 750, 1020, 1050, 1410}

ClockInstants == { [day |-> d, minute |-> m] : d \in 0..MaxClockDays, m \in ClockMinutes }

\* max_hours_per_day as a scoring configuration sets it: half a day, the default, and
\* more than the office hours.
ClockMaxHours == {4000, 8000, 10000}

\* date.weekday() >= 5
IsWeekend(day) == day % 7 >= 5

\* start_date >= end_date
NotBefore(a, b) == a.day > b.day \/ (a.day = b.day /\ a.minute >= b.minute)

\* The hours between two times of a day, when day_start < day_end; else nothing is added.
OfficeSpan(day_start, day_end, max_hours) ==
    IF day_start < day_end
    THEN Min(((day_end - day_start) * 1000) \div 60, max_hours)
    ELSE 0

\* The hours the loop adds for current_date with the weekend days counted like the others.
DayHours_weekends_counted(current_date, start, end, max_hours) ==
    IF current_date = start.day /\ current_date = end.day
    THEN OfficeSpan(Max(start.minute, 540), Min(end.minute, 1020), max_hours)
    ELSE IF current_date = start.day
    THEN OfficeSpan(Max(start.minute, 540), 1020, max_hours)
    ELSE IF current_date = end.day
    THEN OfficeSpan(540, Min(end.minute, 1020), max_hours)
    ELSE max_hours

\* The hours the loop adds to total_hours for current_date.
DayHours(current_date, start, end, max_hours) ==
    IF IsWeekend(current_date) THEN 0
    ELSE IF current_date = start.day /\ current_date = end.day
    THEN OfficeSpan(Max(start.minute, 540), Min(end.minute, 1020), max_hours)
    ELSE IF current_date = start.day
    THEN OfficeSpan(Max(start.minute, 540), 1020, max_hours)
    ELSE IF current_date = end.day
    THEN OfficeSpan(540, Min(end.minute, 1020), max_hours)
    ELSE max_hours

\* The while loop from current_date to the end date.
RECURSIVE HoursFrom(_, _, _, _)
HoursFrom(current_date, start, end, max_hours) ==
    IF current_date > end.day THEN 0
    ELSE DayHours(current_date, start, end, max_hours)
             + HoursFrom(current_date + 1, start, end, max_hours)

_calculate_business_hours_between_dates(start, end, max_hours) ==
    IF NotBefore(start, end) THEN 0
    ELSE Round2(HoursFrom(start.day, start, end, max_hours))

InitClock ==
    /\ start_date \in { Some(t) : t \in ClockInstants }
    /\ end_date \in { Some(t) : t \in ClockInstants }
    /\ max_hours_per_day \in ClockMaxHours
    /\ business_hours = None
    /\ PipelineIdle
    /\ IdleBut("clock")

CalculateBusinessHours ==
    /\ business_hours = None
    /\ business_hours' =
           Some(_calculate_business_hours_between_dates(The(start_date), The(end_date),
                                                        max_hours_per_day))
    /\ UNCHANGED <<start_date, end_date, max_hours_per_day>>
    /\ UnchangedBut("clock")

NextClock == CalculateBusinessHours

\* One call of the clock for every pair of datetimes.
SpecClock == InitClock /\ [][NextClock]_vars

\* The weekdays from the start date to the end date, both included.
Weekdays == { d \in The(start_date).day .. The(end_date).day : ~IsWeekend(d) }

\* C21: the clock returns 0 when start >= end; a Saturday or Sunday adds nothing,
\* whatever part of it the interval covers; no calendar day adds more than
\* max_hours_per_day; so the result is at most max_hours_per_day times the number of
\* weekdays from the start date to the end date, and 0 when there is none.
C21_BusinessHoursClock ==
    business_hours # None =>
        LET start == The(start_date)
            end == The(end_date)
            result == The(business_hours)
        IN  /\ NotBefore(start, end) => result = 0
            /\ result >= 0
            /\ \A d \in start.day .. end.day :
                   /\ DayHours(d, start, end, max_hours_per_day) <= max_hours_per_day
                   /\ IsWeekend(d) => DayHours(d, start, end, max_hours_per_day) = 0
            /\ result <= max_hours_per_day * Cardinality(Weekdays)
            /\ Weekdays = {} => result = 0

\* From a Friday within the office hours to the Monday after it: the two days of the
\* weekend lie in between and the result stays within two days' hours.
C21_Witness ==
    /\ business_hours # None
    /\ The(start_date).day = 4
    /\ The(start_date).minute = 750
    /\ The(end_date).day = 7
    /\ The(end_date).minute = 1050
    /\ max_hours_per_day = 8000
    /\ The(business_hours) = 12500

(***************************************************************************)
(* Claims about the order of scoring and aggregation                       *)
(***************************************************************************)
\* The aggregator is about to start or has run.
AggregationStarted == pc \in {"kpi", "done"}

\* The scoring loop has passed every work item: each one is scored, skipped by the
\* include filter, or has the {} of a scoring error.
LoopFinished == idx = Len(work_items) + 1

\* Phase 4 did not run: no item has been looked at.
ScoringSkipped == idx = 1 /\ \A i \in Items : ~Scored(i)

\* C22 as stated: in every run calculate_comprehensive_kpi_per_developer starts only
\* after the scoring loop has finished for every work item.
C22_AggregationAfterScoringLoop == AggregationStarted => LoopFinished

\* C22: the aggregator starts only after the scoring loop has passed every work item,
\* or in a run without efficiency calculation, where no item is scored at all; it never
\* reads a list of which only a part has been through the loop.
C22_Barrier == AggregationStarted => (LoopFinished \/ ScoringSkipped)

\* Two items have been through the loop, one scored and one skipped by the filter, and
\* the aggregation has run on them.
C22_Witness ==
    /\ pc = "done"
    /\ kpis # None
    /\ Len(work_items) = 2
    /\ LoopFinished
    /\ HasRecord(1)
    /\ ~Scored(2)

\* What the scorer is given of a work item: everything but the efficiency the loop
\* stores on it afterwards.
InputsOf(item) ==
    [ id |-> item.id, assigned_to |-> item.assigned_to, state |-> item.state,
      original_estimate |-> item.original_estimate, target_date |-> item.target_date,
      closed_date |-> item.closed_date, revisions |-> item.revisions ]

\* What the loop stores for the item when it is scored by itself.
ScoredAlone(item) ==
    LET efficiency == calculate_fair_efficiency_metrics(
                          [item EXCEPT !.efficiency = None], item.revisions,
                          state_config, timeframe)
    IN  IF "exception" \in DOMAIN efficiency THEN EmptyDict ELSE efficiency

MaxRetries == 4

\* What an attempt can meet.  The first three are answers with a success status and a
\* body that parses: with ResultSets, with body.ResultSets, with neither.  The others
\* raise inside the try block: a timeout, an error status (raise_for_status), another
\* request error, and a body that is no JSON or not of the expected shape.
Answers == {"result_sets", "body_wrapped", "unexpected_format"}

Failures == {"Timeout", "HTTPError", "RequestException", "Exception"}

\* What the function returns for an answer.
ResultOf(answer) ==
    CASE answer = "result_sets" -> "result"
      [] answer = "body_wrapped" -> "result['body']"
      [] answer = "unexpected_format" -> "empty result"

RECURSIVE Pow2(_)
Pow2(n) == IF n = 0 THEN 1 ELSE 2 * Pow2(n - 1)

InitClient ==
    /\ emails \in { <<>>, <<"dev1@example.com">> }
    /\ dates_valid \in BOOLEAN
    /\ max_retries \in 0..MaxRetries
    /\ client_pc = "called"
    /\ attempt = 0
    /\ last_exception = None
    /\ responses = <<>>
    /\ sleeps = <<>>
    /\ client_result = None
    /\ PipelineIdle
    /\ IdleBut("client")

\* Lines 50-74: no emails, a malformed date, or the loop is entered; with
\* max_retries < 1 the loop has no pass and the function raises at once.
Validate ==
    /\ client_pc = "called"
    /\ IF emails = <<>>
       THEN client_pc' = "returned" /\ client_result' = Some("empty result")
                 /\ attempt' = attempt
       ELSE IF ~dates_valid
       THEN client_pc' = "raised" /\ client_result' = Some("ValueError")
                 /\ attempt' = attempt
       ELSE IF max_retries < 1
       THEN client_pc' = "raised" /\ client_result' = Some("RequestException")
                 /\ attempt' = attempt
       ELSE client_pc' = "attempt" /\ client_result' = client_result /\ attempt' = 1
    /\ UNCHANGED <<emails, dates_valid, max_retries, last_exception, responses, sleeps>>
    /\ UnchangedBut("client")

\* The post of this attempt is answered: the function returns.
AttemptReturns ==
    /\ client_pc = "attempt"
    /\ \E answer \in Answers :
           /\ responses' = Append(responses, answer)
           /\ client_result' = Some(ResultOf(answer))
    /\ client_pc' = "returned"
    /\ UNCHANGED <<emails, dates_valid, max_retries, attempt, last_exception, sleeps>>
    /\ UnchangedBut("client")

\* The attempt raises, and the function sleeps after the last attempt as well before
\* it raises.
AttemptFails_sleeps_after_last ==
    /\ client_pc = "attempt"
    /\ \E failure \in Failures :
           /\ responses' = Append(responses, failure)
           /\ last_exception' = Some(failure)
    /\ sleeps' = Append(sleeps, Pow2(attempt))
    /\ IF attempt < max_retries
       THEN /\ attempt' = attempt + 1
            /\ UNCHANGED <<client_pc, client_result>>
       ELSE /\ client_pc' = "raised"
            /\ client_result' = Some("RequestException")
            /\ attempt' = attempt
    /\ UNCHANGED <<emails, dates_valid, max_retries>>
    /\ UnchangedBut("client")

\* The attempt raises: the exception is kept; before the last attempt the function
\* sleeps 2 ** attempt seconds and goes on, after the last one it raises.
AttemptFails ==
    /\ client_pc = "attempt"
    /\ \E failure \in Failures :
           /\ responses' = Append(responses, failure)
           /\ last_exception' = Some(failure)
    /\ IF attempt < max_retries
       THEN /\ sleeps' = Append(sleeps, Pow2(attempt))
            /\ attempt' = attempt + 1
            /\ UNCHANGED <<client_pc, client_result>>
       ELSE /\ client_pc' = "raised"
            /\ client_result' = Some("RequestException")
            /\ UNCHANGED <<sleeps, attempt>>
    /\ UNCHANGED <<emails, dates_valid, max_retries>>
    /\ UnchangedBut("client")

NextClient == Validate \/ AttemptReturns \/ AttemptFails

\* One call of the client, with every course of its attempts.
SpecClient == InitClient /\ [][NextClient]_vars

\* The attempts made so far that raised.
FailedAttempts == { k \in 1..Len(responses) : responses[k] \in Failures }

\* C24: for a non-empty email list and valid dates the function makes at most
\* max_retries HTTP attempts; it returns at the first attempt that is answered and makes
\* no attempt after it; it has slept 2^k seconds after the k-th failed attempt, except
\* after attempt number max_retries; and when all max_retries attempts have failed it
\* has raised RequestException and returned nothing.
C24_RetryProtocol ==
    (emails # <<>> /\ dates_valid /\ client_pc # "called") =>
        /\ Len(responses) <= max_retries
        /\ \A k \in 1..(Len(responses) - 1) : responses[k] \in Failures
        /\ client_pc = "returned"
               <=> (responses # <<>> /\ responses[Len(responses)] \in Answers)
        /\ client_pc = "returned"
               => client_result = Some(ResultOf(responses[Len(responses)]))
        /\ Len(sleeps) = Min(Cardinality(FailedAttempts), Max(max_retries - 1, 0))
        /\ \A k \in 1..Len(sleeps) : sleeps[k] = Pow2(k)
        /\ client_pc = "raised"
               <=> (Cardinality(FailedAttempts) = Max(max_retries, 0))
        /\ client_pc = "raised" => client_result = Some("RequestException")
        /\ client_pc = "attempt" => client_result = None

\* Every attempt but the last one failed, each followed by its sleep, and the last
\* attempt was answered.
C24_Witness ==
    /\ emails # <<>>
    /\ dates_valid
    /\ max_retries = 4
    /\ client_pc = "returned"
    /\ Len(responses) = 4
    /\ sleeps = <<2, 4, 8>>
    /\ client_result = Some("result['body']")

(***************************************************************************)
(* Parallel revision fetch                                                 *)
(***************************************************************************)
MaxFetchItems == 3

\* len(batches) for n items
BatchCount(n, size) == (n + size - 1) \div size

\* batches[b - 1]: work_items[i:i + batch_size] for the b-th i of range(0, n, batch_size)
Batch(b) ==
    SubSeq(input_items, (b - 1) * batch_size + 1, Min(b * batch_size, Len(input_items)))

BatchIds == 1..BatchCount(Len(input_items), batch_size)

\* The revisions a successful request stores on an item.
Fetched == <<"revision">>

InitFetch ==
    /\ input_items \in { [k \in 1..n |-> k] : n \in 1..MaxFetchItems }
    /\ batch_size \in {1, 2}
    /\ max_workers \in {1, 2}
    /\ revisions = [item \in 1..Len(input_items) |-> None]
    /\ batch_state = [b \in BatchIds |-> "submitted"]
    /\ batch_position = [b \in BatchIds |-> 0]
    /\ batch_results = [b \in BatchIds |-> <<>>]
    /\ batch_failed = [b \in BatchIds |-> 0]
    /\ all_items_with_revisions = <<>>
    /\ performance_metrics = [revision_calls |-> 0, items_processed |-> 0, failed_items |-> 0]
    /\ fetch_pc = "collecting"
    /\ fetch_outcome = [item \in 1..Len(input_items) |-> "none"]
    /\ PipelineIdle
    /\ IdleBut("fetch")

\* A worker thread is free and takes the batch: process_batch creates its session, or
\* fails doing so.
StartBatch(b) ==
    /\ fetch_pc = "collecting"
    /\ batch_state[b] = "submitted"
    /\ Cardinality({ c \in BatchIds : batch_state[c] = "running" }) < max_workers
    /\ \E created \in BOOLEAN :
           batch_state' = [batch_state EXCEPT ![b] = IF created THEN "running" ELSE "failed"]
    /\ UNCHANGED <<input_items, batch_size, max_workers, revisions, batch_position,
                   batch_results, batch_failed, all_items_with_revisions,
                   performance_metrics, fetch_pc, fetch_outcome>>
    /\ UnchangedBut("fetch")

\* One pass of the loop of process_batch.  The request is answered ("fetched"), or it
\* raises and fetch_revisions_for_item catches it ("failed"), or an exception leaves
\* fetch_revisions_for_item and with it process_batch ("escaped").  After the last item
\* the batch returns its result, unless closing the session raises.
FetchItem(b) ==
    /\ fetch_pc = "collecting"
    /\ batch_state[b] = "running"
    /\ LET item == Batch(b)[batch_position[b] + 1]
           last == batch_position[b] + 1 = Len(Batch(b))
       IN  \E outcome \in {"fetched", "failed", "escaped"}, closed \in BOOLEAN :
               /\ fetch_outcome' = [fetch_outcome EXCEPT ![item] = outcome]
               /\ IF outcome = "escaped"
                  THEN /\ batch_state' = [batch_state EXCEPT ![b] = "failed"]
                       /\ UNCHANGED <<revisions, batch_position, batch_results, batch_failed>>
                  ELSE /\ revisions' =
                              [revisions EXCEPT ![item] =
                                   IF outcome = "fetched" THEN Some(Fetched) ELSE Some(<<>>)]
                       /\ batch_position' = [batch_position EXCEPT ![b] = @ + 1]
                       /\ batch_results' = [batch_results EXCEPT ![b] = Append(@, item)]
                       /\ batch_failed' =
                              [batch_failed EXCEPT ![b] = IF outcome = "failed" THEN @ + 1 ELSE @]
                       /\ batch_state' =
                              [batch_state EXCEPT ![b] =
                                   IF ~last THEN "running"
                                   ELSE IF closed THEN "done" ELSE "failed"]
    /\ UNCHANGED <<input_items, batch_size, max_workers, all_items_with_revisions,
                   performance_metrics, fetch_pc>>
    /\ UnchangedBut("fetch")

\* The metrics after the loop over the futures, when every batch has been collected.
Finished(states, items, metrics) ==
    IF \A c \in DOMAIN states : states[c] = "collected"
    THEN [metrics EXCEPT !.items_processed = Len(items)]
    ELSE metrics

\* The main thread takes a completed future, and the items of a failed batch are left out.
CollectBatch_failed_batch_dropped(b) ==
    /\ fetch_pc = "collecting"
    /\ batch_state[b] \in {"done", "failed"}
    /\ batch_state' = [batch_state EXCEPT ![b] = "collected"]
    /\ IF batch_state[b] = "done"
       THEN /\ all_items_with_revisions' = all_items_with_revisions \o batch_results[b]
            /\ performance_metrics' =
                   Finished(batch_state', all_items_with_revisions',
                            [performance_metrics EXCEPT
                                 !.revision_calls = @ + Len(batch_results[b]),
                                 !.failed_items = @ + batch_failed[b]])
            /\ UNCHANGED revisions
       ELSE /\ all_items_with_revisions' = all_items_with_revisions
            /\ performance_metrics' =
                   Finished(batch_state', all_items_with_revisions', performance_metrics)
            /\ UNCHANGED revisions
    /\ fetch_pc' = IF \A c \in BatchIds : batch_state'[c] = "collected"
                   THEN "returned" ELSE "collecting"
    /\ UNCHANGED <<input_items, batch_size, max_workers, batch_position, batch_results,
                   batch_failed, fetch_outcome>>
    /\ UnchangedBut("fetch")

\* The main thread takes a completed future: it extends the list by the items of the
\* batch's result, or, when the batch raised, gives every item of the batch an empty
\* revisions list and appends it.  After the last future the function returns.
CollectBatch(b) ==
    /\ fetch_pc = "collecting"
    /\ batch_state[b] \in {"done", "failed"}
    /\ batch_state' = [batch_state EXCEPT ![b] = "collected"]
    /\ IF batch_state[b] = "done"
       THEN /\ all_items_with_revisions' = all_items_with_revisions \o batch_results[b]
            /\ performance_metrics' =
                   Finished(batch_state', all_items_with_revisions',
                            [performance_metrics EXCEPT
                                 !.revision_calls = @ + Len(batch_results[b]),
                                 !.failed_items = @ + batch_failed[b]])
            /\ UNCHANGED revisions
       ELSE /\ all_items_with_revisions' = all_items_with_revisions \o Batch(b)
            /\ performance_metrics' =
                   Finished(batch_state', all_items_with_revisions',
                            [performance_metrics EXCEPT !.failed_items = @ + Len(Batch(b))])
            /\ revisions' =
                   [item \in DOMAIN revisions |->
                        IF \E k \in 1..Len(Batch(b)) : Batch(b)[k] = item
                        THEN Some(<<>>) ELSE revisions[item]]
    /\ fetch_pc' = IF \A c \in BatchIds : batch_state'[c] = "collected"
                   THEN "returned" ELSE "collecting"
    /\ UNCHANGED <<input_items, batch_size, max_workers, batch_position, batch_results,
                   batch_failed, fetch_outcome>>
    /\ UnchangedBut("fetch")

NextFetch == \E b \in BatchIds : StartBatch(b) \/ FetchItem(b) \/ CollectBatch(b)

\* One call of the parallel fetch, with every interleaving of its threads.
SpecFetch == InitFetch /\ [][NextFetch]_vars

\* The places of the returned list that hold the item.
PlacesOf(item) ==
    { k \in 1..Len(all_items_with_revisions) : all_items_with_revisions[k] = item }

\* C25: when get_work_item_revisions_parallel returns, the list holds every input work
\* item exactly once, every item has a revisions field, which is the empty list when
\* the request of the item failed or was never made, and items_processed is the
\* number of input items.
C25_FetchCompleteness ==
    fetch_pc = "returned" =>
        /\ Len(all_items_with_revisions) = Len(input_items)
        /\ \A item \in 1..Len(input_items) :
               /\ Cardinality(PlacesOf(item)) = 1
               /\ revisions[item] # None
               /\ fetch_outcome[item] # "fetched" => revisions[item] = Some(<<>>)
        /\ performance_metrics.items_processed = Len(input_items)

\* Three items in two batches on two workers: one batch failed after its first item
\* was fetched, the other returned with a fetched item; the failed one came in last.
C25_Witness ==
    /\ fetch_pc = "returned"
    /\ Len(input_items) = 3
    /\ batch_size = 2
    /\ max_workers = 2
    /\ fetch_outcome = <<"fetched", "escaped", "fetched">>
    /\ all_items_with_revisions = <<3, 1, 2>>
    /\ revisions = <<Some(<<>>), Some(<<>>), Some(Fetched)>>

(***************************************************************************)
(* WIQL pagination: the loop of execute_wiql_query, repeated in             *)
(* execute_optimized_wiql_query and execute_organization_wiql_query.        *)
(***************************************************************************)

\* The pages with work items a server holds, and the items of one page.
MaxWiqlPages == 2

MaxPageItems == 1

\* The page number of the safety check, `if page_count > 100`.
SafetyLimit == 100

WiqlMethods ==
    {"execute_wiql_query", "execute_optimized_wiql_query", "execute_organization_wiql_query"}

\* The entries of a response's workItems: references that carry the id of a work item.
WorkItemRefs == { [id |-> i] : i \in 1..2 }

WiqlPages == UNION { [1..n -> WorkItemRefs] : n \in 0..MaxPageItems }

\* A server: the pages it holds, the number of its first responses that carry a
\* continuation token, and whether it puts one in every response.
WiqlServers ==
    { [pages |-> pages, tokens |-> tokens, endless |-> endless] :
          pages \in UNION { [1..n -> WiqlPages] : n \in 0..MaxWiqlPages },
          tokens \in 0..MaxWiqlPages,
          endless \in BOOLEAN }

\* The page a request asks for: the first without a token, else the one the token names.
PageAsked(token) == IF IsNone(token) THEN 1 ELSE The(token)

\* The response of the server to a request with the given continuation token.
Response(server, token) ==
    LET k == PageAsked(token)
    IN  [workItems |-> IF k <= Len(server.pages) THEN server.pages[k] ELSE <<>>,
         continuationToken |-> IF server.endless \/ k <= server.tokens
                               THEN Some(k + 1) ELSE None]

\* What the loop appends for a page: the ids of its entries, and in
\* execute_organization_wiql_query the entries themselves.
PageIds(method, page_work_items) ==
    IF method = "execute_organization_wiql_query"
    THEN page_work_items
    ELSE [k \in 1..Len(page_work_items) |-> page_work_items[k].id]

InitWiql ==
    /\ wiql_method \in WiqlMethods
    /\ wiql_server \in WiqlServers
    /\ page_count = 0
    /\ continuation_token = None
    /\ all_work_item_ids = <<>>
    /\ wiql_calls \in IF wiql_method = "execute_optimized_wiql_query" THEN {0, 1} ELSE {0}
    /\ wiql_pc = "paging"
    /\ PipelineIdle
    /\ IdleBut("wiql")

\* One pass of the loop in which the safety check compares with the next page number.
FetchPage_one_page_more ==
    /\ wiql_pc = "paging"
    /\ LET response == Response(wiql_server, continuation_token)
       IN  /\ page_count' = page_count + 1
           /\ wiql_calls' = IF wiql_method = "execute_optimized_wiql_query"
                            THEN wiql_calls + 1 ELSE wiql_calls
           /\ continuation_token' = response.continuationToken
           /\ all_work_item_ids' =
                  all_work_item_ids \o PageIds(wiql_method, response.workItems)
           /\ wiql_pc' = IF IsNone(response.continuationToken) THEN "returned"
                         ELSE IF page_count' > SafetyLimit + 1 THEN "returned"
                         ELSE "paging"
    /\ UNCHANGED <<wiql_method, wiql_server>>
    /\ UnchangedBut("wiql")

\* One pass of the loop whose request is answered: the page number is counted, the
\* request carries the token of the last response, the items of the page are appended,
\* and the loop ends when the response has no token or the page number is above 100.
FetchPage ==
    /\ wiql_pc = "paging"
    /\ LET response == Response(wiql_server, continuation_token)
       IN  /\ page_count' = page_count + 1
           /\ wiql_calls' = IF wiql_method = "execute_optimized_wiql_query"
                            THEN wiql_calls + 1 ELSE wiql_calls
           /\ continuation_token' = response.continuationToken
           /\ all_work_item_ids' =
                  all_work_item_ids \o PageIds(wiql_method, response.workItems)
           /\ wiql_pc' = IF IsNone(response.continuationToken) THEN "returned"
                         ELSE IF page_count' > SafetyLimit THEN "returned"
                         ELSE "paging"
    /\ UNCHANGED <<wiql_method, wiql_server>>
    /\ UnchangedBut("wiql")

\* One pass of the loop whose request raises: handle_request's exception leaves the
\* function.
RequestRaises ==
    /\ wiql_pc = "paging"
    /\ page_count' = page_count + 1
    /\ wiql_pc' = "raised"
    /\ UNCHANGED <<wiql_method, wiql_server, continuation_token, all_work_item_ids,
                   wiql_calls>>
    /\ UnchangedBut("wiql")

NextWiql == FetchPage \/ RequestRaises

\* One call of a paginated query; the loop is sequential code, so it keeps stepping.
SpecWiql == InitWiql /\ [][NextWiql]_vars /\ WF_vars(NextWiql)

\* The ids of the pages 1..n of the server, in page order.
RECURSIVE IdsOfPages(_, _)
IdsOfPages(server, n) ==
    IF n = 0 THEN <<>>
    ELSE IdsOfPages(server, n - 1)
             \o (IF n <= Len(server.pages)
                 THEN [k \in 1..Len(server.pages[n]) |-> server.pages[n][k].id]
                 ELSE <<>>)

\* The ids the loop has gathered.
GatheredIds ==
    IF wiql_method = "execute_organization_wiql_query"
    THEN [k \in 1..Len(all_work_item_ids) |-> all_work_item_ids[k].id]
    ELSE all_work_item_ids

\* The responses 1..n of the server all carry a continuation token.
TokensUpTo(server, n) == server.endless \/ n <= server.tokens

\* The loop is never past page 101 and goes on only after a response with a token;
\* when it has ended normally the last response is the first without a token, or the
\* 101st, and the ids gathered are those of the pages requested, in page order.
PaginationBounded ==
    /\ page_count <= SafetyLimit + 1
    /\ wiql_pc = "paging" =>
           /\ page_count <= SafetyLimit
           /\ TokensUpTo(wiql_server, page_count)
    /\ wiql_pc = "returned" =>
           /\ page_count >= 1
           /\ TokensUpTo(wiql_server, page_count - 1)
           /\ \/ ~TokensUpTo(wiql_server, page_count)
              \/ page_count = SafetyLimit + 1
           /\ GatheredIds = IdsOfPages(wiql_server, page_count)

\* C26: the pagination loop of execute_wiql_query, execute_optimized_wiql_query and
\* execute_organization_wiql_query ends: it stops at the first response without a
\* continuation token, it makes at most 101 page requests even when every response
\* carries one, and it ends with the ids gathered so far, in page order.
C26_PaginationTerminates == []PaginationBounded /\ <>(wiql_pc \in {"returned", "raised"})

\* A server that puts a token in every response: the loop ended after 101 requests
\* with the ids of the two pages the server holds.
C26_Witness ==
    /\ wiql_pc = "returned"
    /\ wiql_server.endless
    /\ page_count = 101
    /\ continuation_token # None
    /\ GatheredIds = <<2, 1>>

(***************************************************************************)
(* Logic App rows: _process_logic_app_work_items.                           *)
(***************************************************************************)

\* The rows of one Logic App response.
MaxRows == 3

\* A JSON value of a row: the key is missing, or it holds null, or it holds a string,
\* kept as the sequence of its characters.
Missing == [kind |-> "missing", chars |-> <<>>]

Null == [kind |-> "null", chars |-> <<>>]

Str(chars) == [kind |-> "str", chars |-> chars]

\* The values of AssignedToUser: no key, null, blanks only, two users, and the first
\* user with a blank in front.
AssignedToUsers ==
    {Missing, Null, Str(<<" ">>), Str(<<"a">>), Str(<<" ", "a">>), Str(<<"b">>)}

\* The values of WorkItemId: none (no key, or null), 0 and two ids.
WorkItemIds == {None, Some(0), Some(1), Some(2)}

\* item.get(key, default): the default stands in for a missing key only.
GetOr(value, default) == IF value.kind = "missing" THEN default ELSE value

\* str.strip() on the characters of a string.
RECURSIVE Strip(_)
Strip(chars) ==
    IF chars = <<>> THEN <<>>
    ELSE IF Head(chars) = " " THEN Strip(Tail(chars))
    ELSE IF chars[Len(chars)] = " " THEN Strip(SubSeq(chars, 1, Len(chars) - 1))
    ELSE chars

\* The rows of a response; Title tells the rows of a response apart.
RawRows(n) ==
    { [k \in 1..n |-> [WorkItemId |-> ids[k], AssignedToUser |-> users[k], Title |-> k]] :
          ids \in [1..n -> WorkItemIds], users \in [1..n -> AssignedToUsers] }

\* `not work_item_id`: None and 0 are falsy.
NoWorkItemId(work_item_id) == IsNone(work_item_id) \/ work_item_id = Some(0)

\* The standardized work item of a row (the fields copied from other columns left out).
StandardItem(row, assigned_to) ==
    [id |-> The(row.WorkItemId), title |-> row.Title, assigned_to |-> assigned_to,
     fabric_enriched |-> TRUE, revisions |-> <<>>, state |-> NoState,
     work_item_type |-> NoState]

\* The loop over the rows from row k on, with the keys seen and the list built so far:
\* .strip() on a null assignee raises; a row without id or with an assignee that is
\* empty once stripped is skipped, and so is a row whose key has been seen.  Gives
\* [returned |-> the list], or [exception |-> e] when e leaves the function.
RECURSIVE ProcessRows(_, _, _, _)
ProcessRows(rows, k, seen_keys, items) ==
    IF k > Len(rows) THEN [returned |-> items]
    ELSE LET item == rows[k]
             work_item_id == item.WorkItemId
             value == GetOr(item.AssignedToUser, Str(<<>>))
         IN  IF value.kind = "null"
             THEN [exception |-> "AttributeError"]
             ELSE LET assigned_to == Strip(value.chars)
                      key == <<work_item_id, assigned_to>>
                  IN  IF NoWorkItemId(work_item_id) \/ assigned_to = <<>>
                      THEN ProcessRows(rows, k + 1, seen_keys, items)
                      ELSE IF key \in seen_keys
                      THEN ProcessRows(rows, k + 1, seen_keys, items)
                      ELSE ProcessRows(rows, k + 1, seen_keys \cup {key},
                               Append(items, StandardItem(item, assigned_to)))

_process_logic_app_work_items(rows) == ProcessRows(rows, 1, {}, <<>>)

InitProcess ==
    /\ work_items_raw \in UNION { RawRows(n) : n \in 1..MaxRows }
    /\ processed_items = <<>>
    /\ process_pc = "called"
    /\ PipelineIdle
    /\ IdleBut("process")

\* The call runs to its return or to its exception.
ProcessLogicAppWorkItems ==
    /\ process_pc = "called"
    /\ LET outcome == _process_logic_app_work_items(work_items_raw)
       IN  IF "exception" \in DOMAIN outcome
           THEN /\ process_pc' = "raised"
                /\ UNCHANGED processed_items
           ELSE /\ process_pc' = "returned"
                /\ processed_items' = outcome.returned
    /\ UNCHANGED work_items_raw
    /\ UnchangedBut("process")

NextProcess == ProcessLogicAppWorkItems

\* One call of _process_logic_app_work_items.
SpecProcess == InitProcess /\ [][NextProcess]_vars

\* The row has an id and an assignee.
HasPair(row) ==
    /\ ~NoWorkItemId(row.WorkItemId)
    /\ row.AssignedToUser.kind = "str"
    /\ Strip(row.AssignedToUser.chars) # <<>>

\* The pair of a row, the assignee without the blanks around it.
PairOf(row) == <<The(row.WorkItemId), Strip(row.AssignedToUser.chars)>>

\* The rows with a pair that no earlier row carries, in the order of the response.
FirstOccurrences ==
    SelectSeq(work_items_raw,
              LAMBDA row : /\ HasPair(row)
                           /\ \A j \in 1..(row.Title - 1) :
                                  HasPair(work_items_raw[j]) =>
                                      PairOf(work_items_raw[j]) # PairOf(row))

\* C27: _process_logic_app_work_items returns a list in which no two items share the
\* pair (id, assignee); every row with an id and an assignee is represented by the
\* first row that carries its pair; rows missing the id or the assignee are dropped;
\* and the first occurrences keep their order.
C27_Deduplication ==
    process_pc # "called" =>
        /\ process_pc = "returned"
        /\ Len(processed_items) = Len(FirstOccurrences)
        /\ \A k \in 1..Len(processed_items) :
               /\ processed_items[k].title = FirstOccurrences[k].Title
               /\ <<processed_items[k].id, processed_items[k].assigned_to>>
                      = PairOf(FirstOccurrences[k])
        /\ \A j, k \in 1..Len(processed_items) :
               j # k => <<processed_items[j].id, processed_items[j].assigned_to>>
                            # <<processed_items[k].id, processed_items[k].assigned_to>>

(***************************************************************************)
(* Claims about the on-time count and the counters of the aggregator       *)
(***************************************************************************)
\* The scores of the late tiers.
LateScores == { config.late_delivery_scores[tier] : tier \in DOMAIN config.late_delivery_scores }

\* The scorer ran delivery timing for the record of item i: the record is neither the
\* empty one nor the one of an ignored item.
TimingScored(i) == Eff(i).capping_applied \notin {<<"no_data">>, <<"ignored_item">>}

\* C28: an item the aggregator counts as on time (days_ahead_behind <= 0) was given a
\* non-late tier by the scorer: its delivery_score is none of the late scores and its
\* late_penalty_mitigation is 0; rounding days_difference to one decimal moves no late
\* item into the on-time count.
C28_OnTimeAgreesWithTier ==
    Aggregated =>
        \A developer \in Assignees : \A i \in OnTime(developer) :
            /\ Eff(i).delivery_score \notin LateScores
            /\ TimingScored(i) => DeliveryOf(i).late_penalty_mitigation = 0

\* The sum of the six counts of a delivery_timing_breakdown.
BreakdownTotal(breakdown) ==
    breakdown.early + breakdown.on_time + breakdown.late_1_3 + breakdown.late_4_7
        + breakdown.late_8_14 + breakdown.late_15_plus

\* C29: for each assignee items_with_efficiency <= items_with_estimated <=
\* items_with_data <= number of items; the six delivery_timing_breakdown counts sum to
\* items_with_data; on_time_count is the early plus the on_time bucket; so the sample
\* confidence lies in [0, 1] (sample_confidence in [0, 100]) and
\* on_time_delivery_percentage and reopened_rate lie in [0, 100].
C29_CounterInvariant ==
    Aggregated =>
        \A developer \in Assignees :
            LET m == MetricsOf(developer)
                items_with_estimated == Cardinality(WithEstimate(developer))
                items_with_data == Cardinality(WithData(developer))
                on_time_count == Cardinality(OnTime(developer))
            IN  /\ m.items_with_efficiency = Cardinality(WithEfficiency(developer))
                /\ 0 <= m.items_with_efficiency
                /\ m.items_with_efficiency <= items_with_estimated
                /\ items_with_estimated <= items_with_data
                /\ items_with_data <= Cardinality(ItemsOf(developer))
                /\ BreakdownTotal(m.delivery_timing_breakdown) = items_with_data
                /\ m.delivery_timing_breakdown.early + m.delivery_timing_breakdown.on_time
                       = on_time_count
                /\ m.reopened_items_handled <= items_with_data
                /\ m.sample_confidence \in 0..10000
                /\ m.items_with_efficiency > 0 =>
                       m.sample_confidence
                           = RoundPts(m.items_with_efficiency * 10000, items_with_estimated)
                /\ m.on_time_delivery_percentage \in 0..10000
                /\ m.reopened_rate \in 0..10000

\* An assignee with four items: one without data, three with data and an estimate of
\* which one enters the efficiency average; two of the three count as on time, one is
\* late by up to three days.
C29_Witness ==
    /\ Aggregated
    /\ \E developer \in Assignees :
           /\ MetricsOf(developer).items_with_efficiency = 1
           /\ Cardinality(WithEstimate(developer)) = 3
           /\ Cardinality(WithData(developer)) = 3
           /\ Cardinality(ItemsOf(developer)) = 4
           /\ MetricsOf(developer).sample_confidence = 3333
           /\ MetricsOf(developer).delivery_timing_breakdown.on_time = 2
           /\ MetricsOf(developer).delivery_timing_breakdown.late_1_3 = 1
           /\ MetricsOf(developer).on_time_delivery_percentage = 6667

\* The item has no meaningful efficiency data: its efficiency is missing or {}, or it
\* is the empty record of an item with fewer than 2 revisions.
NoMeaningfulData(item) ==
    \/ EfficiencyOf(item) = EmptyDict
    \/ EfficiencyOf(item).capping_applied = <<"no_data">>

HasMeaningfulData(item) == ~NoMeaningfulData(item)

\* C30: an item whose efficiency record is the empty record returned for fewer than
\* 2 revisions, or is missing or {}, is not counted in items_with_data and leaves the
\* assignee's average_delivery_score, on_time_delivery_percentage and reopened_rate
\* as they are for the assignee's other items.
C30_NoDataItemsLeaveAverages ==
    Aggregated =>
        \A developer \in Assignees :
            LET mine(item) == item.assigned_to = developer
                kept == SelectSeq(SelectSeq(work_items, mine), HasMeaningfulData)
                others == _calculate_developer_metrics(
                              kept, TotalAssigned(assigned_counts, developer))
                m == MetricsOf(developer)
            IN  /\ BreakdownTotal(m.delivery_timing_breakdown) = Len(kept)
                /\ m.average_delivery_score = others.average_delivery_score
                /\ m.on_time_delivery_percentage = others.on_time_delivery_percentage
                /\ m.reopened_rate = others.reopened_rate

====
